---- MODULE Spec2Model ----
(***************************************************************************)
(* SSH client runtime of jaterm (src/src-tauri/src/commands/ssh.rs).       *)
(*                                                                         *)
(* The model has one process per caller thread.  A thread is idle, or it   *)
(* is inside one command handler at the program point pc[t].  The shared   *)
(* state is the session registry (AppState.inner, guarded by the registry  *)
(* lock), every session's operation lock and blocking mode, and the        *)
(* known-hosts file.                                                       *)
(*                                                                         *)
(* The specifications:                                                     *)
(*   Spec         the operations on established sessions (exec, SFTP,      *)
(*                home directory, disconnect) run by two threads;          *)
(*   SpecConnect  ssh_connect with its host-key trust check, run by one    *)
(*                caller against an initially empty registry;              *)
(*   SpecShell    shells: ssh_open_shell (a split session and its          *)
(*                channel), the background reader, ssh_write, ssh_resize,  *)
(*                ssh_close_shell, ssh_set_primary and ssh_disconnect;     *)
(*   SpecClose    one open shell, its reader and the callers that write    *)
(*                to it, resize it and close it, under fair scheduling;    *)
(*   SpecForward  ssh_open_forward and ssh_close_forward, with processes   *)
(*                that may exit on their own;                              *)
(*   SpecTrust    SpecConnect with the record of the keys accepted;        *)
(*   SpecLocks    the commands that take locks, side by side with the      *)
(*                reader;                                                  *)
(*   SpecIdle     ssh_exec and ssh_sftp_download beside the reader of an   *)
(*                open shell, under fair scheduling;                       *)
(*   SpecMkdirs, SpecUpload, SpecList, SpecCrypto, SpecReader              *)
(*                the file-system, data and reader models further down.    *)
(***************************************************************************)
EXTENDS Integers, Sequences, FiniteSets, TLC

\* ------------------------------------------------------------------------
\* Bounds and finite domains
\* ------------------------------------------------------------------------
Threads == {"t1", "t2"}
SessionIds == {"ssh_1", "ssh_2"}

\* longest run of data-carrying reads of one stream / chunks of one upload
MaxReads == 1
MaxChunks == 1
\* path segments handed to ssh_sftp_mkdirs
MaxParts == 1

\* lines the known-hosts file may hold
MaxKnownHosts == 2

NoThread == "no_thread"
NoSession == "no_session"

\* the callers of ssh_connect in SpecConnect
ConnectCallers == {"t1"}

\* identifiers of shell channels and of port forwards
ChannelIds == {"chan_1"}
ForwardIds == {"fwd_1", "fwd_2"}
NoChannel == "no_channel"

\* Host names are sequences of characters.  "Fa" is a DNS name with an upper
\* case letter, "::F" an IPv6 literal with an upper case hex digit.
Hosts == { <<"F", "a">>, <<":", ":", "F">> }
Ports == {22, 2222}
Users == {"alice"}
\* SshProfile.trust_host : Option<bool>
TrustFlags == {"None", "Some_true", "Some_false"}
\* SshProfile.auth : Option<SshAuth>; "empty" is Some(SshAuth) with no agent,
\* password or key_path
AuthShapes == {"None", "agent", "password", "key_path", "empty"}
\* host keys a server may present: raw key bytes and ssh2::HostKeyType
HostKeys == { [key |-> "k1", type |-> "Rsa"], [key |-> "k2", type |-> "Unknown"] }

VARIABLES
    ssh,          \* registry: session id -> SshSession fields
    regLock,      \* holder of the registry lock (state.inner)
    sessLock,     \* session id -> holder of SshSession.lock
    blocking,     \* session id -> libssh2 blocking mode of the handle
    issued,       \* session ids generated so far
    known_hosts,  \* lines of ~/.ssh/known_hosts
    pc,           \* thread -> program point
    op,           \* thread -> command being run
    sid,          \* thread -> session_id argument
    cnt,          \* thread -> loop counter of the running command
    ret,          \* thread -> result of the last command
    modeBefore,   \* thread -> blocking mode of sid[t] when the call started
    modeAfter,    \* thread -> blocking mode of sid[t] when the call returned
    prof,         \* thread -> SshProfile argument of ssh_connect
    srv,          \* thread -> host key the server presented in the handshake
    chk,          \* thread -> result of the known-hosts check
    trace,        \* thread -> phases of the running ssh_connect, in order
    ssh_channels, \* registry: channel id -> SshChannel fields
    chanLock,     \* channel id -> holder of SshChannel.chan (the mutex)
    chanState,    \* channel id -> "none", "open", "eof" (remote), "closed"
    forwards,     \* registry: forward id -> SshForward fields
    fwdEvents,    \* forward id -> SSH_TUNNEL_STATE statuses emitted, in order
    child,        \* forward id -> state of the ssh process of the forward
    bye,          \* session id -> the peer has been sent SSH_MSG_DISCONNECT
    exitEvents,   \* channel id -> number of SSH_EXIT events emitted
    rpc,          \* channel id -> program point of its background reader
    rsid,         \* channel id -> session id the reader looked up
    origin,       \* session id -> how the session was produced
    cid,          \* thread -> channel_id / forward_id argument or new id
    nsid,         \* thread -> session id found or generated by the command
    path,         \* ssh_sftp_mkdirs: the path argument
    rfs,          \* the remote file system: file -> "dir" or "file"
    mkPc,         \* ssh_sftp_mkdirs: program point
    parts,        \* ssh_sftp_mkdirs: the parts still to visit
    cur,          \* ssh_sftp_mkdirs: the path built so far
    rfs0,         \* the remote file system when the running call started
    made,         \* the directories the running call has created
    mkErr,        \* ssh_sftp_mkdirs: the error of the failed mkdir
    mkRets,       \* ssh_sftp_mkdirs: the results of the calls, in order
    upOp,         \* upload: the command, ssh_sftp_write or ssh_deploy_helper
    total,        \* upload: the number of bytes to write
    written,      \* upload: the number of bytes written so far
    progress,     \* upload: the SSH_UPLOAD_PROGRESS events emitted, in order
    upPc,         \* upload: program point
    upRet,        \* upload: the result of the call
    lsDir,        \* ssh_sftp_list: the entries of the remote directory
    lsEntries,    \* ssh_sftp_list: what sftp.readdir returned
    lsOut,        \* ssh_sftp_list: the vector out
    lsPc,         \* ssh_sftp_list: program point
    master_key,   \* EncryptionManager.master_key
    salt,         \* EncryptionManager.salt
    fallback,     \* the file .master_key_hash: hash and salt
    encFile,      \* the file profiles.json.enc
    setPw,        \* the password of the last set_master_key
    verQ,         \* the password of the last verify_master_key since then
    verRet,       \* the result of the last verify_master_key since then
    data,         \* encrypt: the string encrypted last
    value,        \* encrypt_json: the value encrypted last
    sealed,       \* the result of the last encrypt or encrypt_json
    opened,       \* the result of the last decrypt or decrypt_json
    encPc,        \* "sealed" between encrypt and the decrypt of its result
    observing,    \* whether the history below is recorded
    accepted,     \* the <<host, key>> pairs ssh_connect accepted on auto-trust
    rres,         \* channel id -> what the reader's last read returned
    reads,        \* channel id -> the sizes of the data the reads returned
    rbuf,         \* channel id -> buf[..n] of the reader's current round
    emitted       \* channel id -> the events the reader emitted, in order

sessVars == <<ssh, regLock, sessLock, blocking, issued>>
callVars == <<pc, op, sid, cnt, ret, modeBefore, modeAfter>>
connVars == <<prof, srv, chk, trace>>
shellCore == <<ssh_channels, chanLock, chanState, forwards, fwdEvents, child,
               exitEvents, rpc, rsid, origin, cid, nsid>>
mkVars == <<path, rfs, mkPc, parts, cur, rfs0, made, mkErr, mkRets>>
\* the variables of the file-system and data models below
upVars == <<upOp, total, written, progress, upPc, upRet>>
lsVars == <<lsDir, lsEntries, lsOut, lsPc>>
encVars == <<master_key, salt, fallback, encFile, setPw, verQ, verRet, data,
             value, sealed, opened, encPc>>
\* the record of what a reader read and emitted
rdVars == <<observing, rres, reads, rbuf, emitted>>
extVars == <<mkVars, upVars, lsVars, encVars, rdVars, accepted>>
shellVars == <<shellCore, bye, extVars>>
vars == <<ssh, regLock, sessLock, blocking, issued, known_hosts,
          pc, op, sid, cnt, ret, modeBefore, modeAfter, prof, srv, chk, trace,
          ssh_channels, chanLock, chanState, forwards, fwdEvents, child,
          bye, exitEvents, rpc, rsid, origin, cid, nsid, extVars>>
\* the variables of the session commands
mainVars == <<ssh, regLock, sessLock, blocking, issued, known_hosts,
              pc, op, sid, cnt, ret, modeBefore, modeAfter, prof, srv, chk,
              trace, shellCore, bye, rdVars, accepted>>
\* what each of the models below leaves alone
mkRest == <<mainVars, upVars, lsVars, encVars>>
upRest == <<mainVars, mkVars, lsVars, encVars>>
lsRest == <<mainVars, mkVars, upVars, encVars>>
encRest == <<mainVars, mkVars, upVars, lsVars>>

\* ------------------------------------------------------------------------
\* Results
\* ------------------------------------------------------------------------
NoRet == [kind |-> "None"]
NoProfile == [host |-> <<>>, port |-> 0, user |-> "", auth |-> "None",
              trust_host |-> "None"]
NoHostKey == [key |-> "", type |-> "Unknown"]
Ok(v) == [kind |-> "Ok", val |-> v]
Err(m) == [kind |-> "Err", msg |-> m]

\* ------------------------------------------------------------------------
\* Host names: is_ip_address and the normalisation of ssh_connect
\* ------------------------------------------------------------------------
UpperCase == <<"A", "B", "C", "D", "E", "F", "G", "H", "I", "J", "K", "L", "M",
               "N", "O", "P", "Q", "R", "S", "T", "U", "V", "W", "X", "Y", "Z">>
LowerCase == <<"a", "b", "c", "d", "e", "f", "g", "h", "i", "j", "k", "l", "m",
               "n", "o", "p", "q", "r", "s", "t", "u", "v", "w", "x", "y", "z">>
DecDigits == <<"0", "1", "2", "3", "4", "5", "6", "7", "8", "9">>

IsUpper(c) == \E i \in 1..Len(UpperCase) : UpperCase[i] = c
IsDigit(c) == \E i \in 1..Len(DecDigits) : DecDigits[i] = c
IsHexDigit(c) ==
    \/ IsDigit(c)
    \/ \E i \in 1..6 : UpperCase[i] = c \/ LowerCase[i] = c

DigitValue(c) == (CHOOSE i \in 1..Len(DecDigits) : DecDigits[i] = c) - 1

\* char::to_ascii_lowercase
CharToLower(c) ==
    IF IsUpper(c)
    THEN LowerCase[CHOOSE i \in 1..Len(UpperCase) : UpperCase[i] = c]
    ELSE c

\* str::to_ascii_lowercase
to_ascii_lowercase(h) == [i \in 1..Len(h) |-> CharToLower(h[i])]

\* str::split(sep): the pieces of h between occurrences of sep
RECURSIVE SplitOn(_, _)
SplitOn(h, sep) ==
    IF \A i \in 1..Len(h) : h[i] # sep
    THEN <<h>>
    ELSE LET k == CHOOSE i \in 1..Len(h) :
                     h[i] = sep /\ \A j \in 1..(i - 1) : h[j] # sep
         IN <<SubSeq(h, 1, k - 1)>> \o SplitOn(SubSeq(h, k + 1, Len(h)), sep)

RECURSIVE DecValue(_)
DecValue(o) ==
    IF o = <<>> THEN 0
    ELSE 10 * DecValue(SubSeq(o, 1, Len(o) - 1)) + DigitValue(o[Len(o)])

\* one octet of a dotted quad: 1 to 3 digits, no leading zero, at most 255
OctetOk(o) ==
    /\ Len(o) \in 1..3
    /\ \A i \in 1..Len(o) : IsDigit(o[i])
    /\ Len(o) > 1 => o[1] # "0"
    /\ DecValue(o) <= 255

\* host.parse::<Ipv4Addr>().is_ok()
ParsesAsIpv4(h) ==
    LET g == SplitOn(h, ".")
    IN /\ Len(g) = 4
       /\ \A i \in 1..4 : OctetOk(g[i])

RECURSIVE TrimStart(_, _)
TrimStart(h, c) ==
    IF h # <<>> /\ h[1] = c THEN TrimStart(Tail(h), c) ELSE h

RECURSIVE TrimEnd(_, _)
TrimEnd(h, c) ==
    IF h # <<>> /\ h[Len(h)] = c
    THEN TrimEnd(SubSeq(h, 1, Len(h) - 1), c)
    ELSE h

\* host.parse::<Ipv6Addr>().is_ok(): groups of 1 to 4 hex digits separated
\* by ":", eight of them, or fewer around one "::" (the form with a dotted
\* quad at the end is left out)
ParsesAsIpv6(h) ==
    LET g == SplitOn(h, ":")
        n == Len(g)
        lead == n >= 3 /\ g[1] = <<>> /\ g[2] = <<>>
        trail == n >= 3 /\ g[n] = <<>> /\ g[n - 1] = <<>>
        g1 == IF lead THEN Tail(g) ELSE g
        g2 == IF trail /\ Len(g1) >= 2 THEN SubSeq(g1, 1, Len(g1) - 1) ELSE g1
        m == Len(g2)
        gaps == {i \in 1..m : g2[i] = <<>>}
        full == {i \in 1..m : g2[i] # <<>>}
    IN /\ \A i \in full :
             /\ Len(g2[i]) <= 4
             /\ \A j \in 1..Len(g2[i]) : IsHexDigit(g2[i][j])
       /\ \A i \in gaps : \/ 1 < i /\ i < m
                          \/ i = 1 /\ lead
                          \/ i = m /\ trail
       /\ \/ gaps = {} /\ m = 8
          \/ Cardinality(gaps) = 1 /\ Cardinality(full) <= 7

is_ip_address(h) ==
    \/ ParsesAsIpv4(h)
    \/ ParsesAsIpv6(TrimEnd(TrimStart(h, "["), "]"))

\* a variant that lowercases every host
NormalizeAlwaysLower(h) == to_ascii_lowercase(h)

\* host_normalized of ssh_connect
Normalize(h) == IF is_ip_address(h) THEN h ELSE to_ascii_lowercase(h)

\* ------------------------------------------------------------------------
\* Host keys and the known-hosts file
\* ------------------------------------------------------------------------
\* the key type written to the known-hosts file
KeyTypeForLine(ty) ==
    CASE ty = "Rsa" -> "ssh-rsa"
      [] ty = "Dss" -> "ssh-dss"
      [] ty = "Ecdsa256" -> "ecdsa-sha2-nistp256"
      [] ty = "Ecdsa384" -> "ecdsa-sha2-nistp384"
      [] ty = "Ecdsa521" -> "ecdsa-sha2-nistp521"
      [] ty = "Ed25519" -> "ssh-ed25519"
      [] OTHER -> "ssh-ed25519"

\* the key type reported in the confirmation payload
KeyTypeForPrompt(ty) ==
    CASE ty = "Rsa" -> "ssh-rsa"
      [] ty = "Dss" -> "ssh-dss"
      [] ty = "Ecdsa256" -> "ecdsa-sha2-nistp256"
      [] ty = "Ecdsa384" -> "ecdsa-sha2-nistp384"
      [] ty = "Ecdsa521" -> "ecdsa-sha2-nistp521"
      [] ty = "Ed25519" -> "ssh-ed25519"
      [] OTHER -> "unknown"

\* base64 STANDARD encoding of the key bytes
Base64(k) == <<"base64", k>>

\* SHA-256 of the key, base64 encoded, trailing "=" trimmed
FingerprintSHA256(k) == <<"sha256", k>>

\* a variant that writes the key type as the confirmation payload names it
KnownHostsLinePromptType(h, hk) ==
    [host |-> h, kt |-> KeyTypeForPrompt(hk.type), key |-> Base64(hk.key)]

\* the line "host keytype key" appended to the file
KnownHostsLine(h, hk) ==
    [host |-> h, kt |-> KeyTypeForLine(hk.type), key |-> Base64(hk.key)]

\* a variant that compares the host only: any line for the host matches,
\* whatever key the server presents
KnownHostsCheckAnyKey(entries, h, hk) ==
    IF \E i \in 1..Len(entries) : entries[i].host = h
    THEN "Match"
    ELSE "NotFound"

\* kh.check(host, key) on the entries read from the file: a line for the
\* host with this key matches, a line for the host with another key is a
\* mismatch
KnownHostsCheck(entries, h, hk) ==
    IF \E i \in 1..Len(entries) :
          entries[i].host = h /\ entries[i].key = Base64(hk.key)
    THEN "Match"
    ELSE IF \E i \in 1..Len(entries) : entries[i].host = h
         THEN "Mismatch"
         ELSE "NotFound"

\* a variant that trusts unless told not to: unwrap_or(true)
TrustHostDefaultTrue(p) == p.trust_host # "Some_false"

\* profile.trust_host.unwrap_or(false)
TrustHost(p) == p.trust_host = "Some_true"

\* ------------------------------------------------------------------------
\* Locks: std::sync::Mutex::lock() blocks until the mutex is free
\* ------------------------------------------------------------------------
LockFreeBroken(l) == TRUE

LockFree(l) == l = NoThread

\* the registry lock guard and the session lock guard of t are dropped
ReleaseAll(t) ==
    /\ regLock' = IF regLock = t THEN NoThread ELSE regLock
    /\ sessLock' = [s \in SessionIds |->
                       IF sessLock[s] = t THEN NoThread ELSE sessLock[s]]

\* the handlers of exec, SFTP, disconnect and connect move on to l; they
\* touch no channel, no forward and no event
Goto(t, l) ==
    /\ pc' = [pc EXCEPT ![t] = l]
    /\ UNCHANGED shellVars

\* The handler returns r.  restore says whether this return path runs
\* sess.set_blocking(false) before the guards are dropped.
Finish(t, r, restore) ==
    /\ blocking' = IF restore THEN [blocking EXCEPT ![sid[t]] = FALSE]
                   ELSE blocking
    /\ modeAfter' = [modeAfter EXCEPT ![t] = blocking'[sid[t]]]
    /\ ReleaseAll(t)
    /\ Goto(t, "done")
    /\ ret' = [ret EXCEPT ![t] = r]
    /\ cnt' = [cnt EXCEPT ![t] = 0]

\* state.inner.lock() followed by inner.ssh.get_mut(&session_id): the thread
\* takes the registry lock; an unknown id returns "ssh session not found"
\* (dropping the guard), a known one continues at next with the guard held.
Lookup(t, next) ==
    /\ LockFree(regLock)
    /\ IF sid[t] \in DOMAIN ssh
       THEN /\ regLock' = t
            /\ Goto(t, next)
            /\ UNCHANGED <<sessLock, blocking, ret, cnt, modeAfter>>
       ELSE Finish(t, Err("ssh session not found"), FALSE)
    /\ UNCHANGED <<ssh, issued, known_hosts, op, sid, modeBefore, connVars>>

\* let _guard = session_lock.lock().unwrap()
LockSession(t, next) ==
    /\ LockFree(sessLock[sid[t]])
    /\ sessLock' = [sessLock EXCEPT ![sid[t]] = t]
    /\ Goto(t, next)
    /\ UNCHANGED <<ssh, regLock, blocking, issued, known_hosts,
                   op, sid, cnt, ret, modeBefore, modeAfter, connVars>>

\* s.sess.set_blocking(true)
SetBlocking(t, next) ==
    /\ blocking' = [blocking EXCEPT ![sid[t]] = TRUE]
    /\ Goto(t, next)
    /\ UNCHANGED <<ssh, regLock, sessLock, issued, known_hosts,
                   op, sid, cnt, ret, modeBefore, modeAfter, connVars>>

\* a step that only moves the program counter
Step(t, next) ==
    /\ Goto(t, next)
    /\ UNCHANGED <<ssh, regLock, sessLock, blocking, issued, known_hosts,
                   op, sid, cnt, ret, modeBefore, modeAfter, connVars>>

\* a return whose only effects are those of Finish
Return(t, r, restore) ==
    /\ Finish(t, r, restore)
    /\ UNCHANGED <<ssh, issued, known_hosts, op, sid, modeBefore, connVars>>

\* one more data-carrying read (or written chunk) of a loop
Again(t) ==
    /\ cnt' = [cnt EXCEPT ![t] = cnt[t] + 1]
    /\ UNCHANGED shellVars
    /\ UNCHANGED <<ssh, regLock, sessLock, blocking, issued, known_hosts,
                   pc, op, sid, ret, modeBefore, modeAfter, connVars>>

\* leave a loop
Leave(t, next) ==
    /\ Goto(t, next)
    /\ cnt' = [cnt EXCEPT ![t] = 0]
    /\ UNCHANGED <<ssh, regLock, sessLock, blocking, issued, known_hosts,
                   op, sid, ret, modeBefore, modeAfter, connVars>>

\* ------------------------------------------------------------------------
\* ssh_exec
\* ------------------------------------------------------------------------
\* whether ssh_exec calls set_blocking(false) before it returns on a way out:
\* it does on each of the six
ExecRestoresButWaitClose(way) == way # "wait_close"

ExecRestores(way) == TRUE

\* ssh_exec returns r.  ssh_deploy_helper calls ssh_exec first and goes on to
\* its own upload when that call succeeded (`ssh_exec(..).await?`).
ExecReturn(t, r) ==
    IF op[t] = "ssh_deploy_helper" /\ r.kind = "Ok"
    THEN /\ blocking' = [blocking EXCEPT
                            ![sid[t]] = IF ExecRestores("success")
                                        THEN FALSE ELSE @]
         /\ ReleaseAll(t)
         /\ Goto(t, "deploy_lookup")
         /\ cnt' = [cnt EXCEPT ![t] = 0]
         /\ UNCHANGED <<ssh, issued, known_hosts, op, sid, ret,
                        modeBefore, modeAfter, connVars>>
    ELSE Return(t, r, ExecRestores("success"))

ssh_exec_lookup(t) ==
    /\ pc[t] = "exec_lookup"
    /\ Lookup(t, "exec_lock")

ssh_exec_lock(t) ==
    /\ pc[t] = "exec_lock"
    /\ LockSession(t, "exec_set_blocking")

ssh_exec_set_blocking(t) ==
    /\ pc[t] = "exec_set_blocking"
    /\ SetBlocking(t, "exec_channel")

ssh_exec_channel(t) ==
    /\ pc[t] = "exec_channel"
    /\ \/ Step(t, "exec_exec")
       \/ Return(t, Err("channel_session"), ExecRestores("channel_session"))

ssh_exec_exec(t) ==
    /\ pc[t] = "exec_exec"
    /\ \/ Step(t, "exec_stdout")
       \/ Return(t, Err("exec"), ExecRestores("exec"))

ssh_exec_stdout(t) ==
    /\ pc[t] = "exec_stdout"
    /\ \/ cnt[t] < MaxReads /\ Again(t)
       \/ Leave(t, "exec_stderr")
       \/ Return(t, Err("read stdout"), ExecRestores("read stdout"))

ssh_exec_stderr(t) ==
    /\ pc[t] = "exec_stderr"
    /\ \/ cnt[t] < MaxReads /\ Again(t)
       \/ Leave(t, "exec_wait_close")
       \/ Return(t, Err("read stderr"), ExecRestores("read stderr"))

ssh_exec_wait_close(t) ==
    /\ pc[t] = "exec_wait_close"
    /\ \/ ExecReturn(t, Ok("ExecResult"))
       \/ Return(t, Err("wait_close"), ExecRestores("wait_close"))

\* ------------------------------------------------------------------------
\* ssh_home_dir
\* ------------------------------------------------------------------------
ssh_home_dir_lookup(t) ==
    /\ pc[t] = "home_lookup"
    /\ Lookup(t, "home_set_blocking")

ssh_home_dir_set_blocking(t) ==
    /\ pc[t] = "home_set_blocking"
    /\ SetBlocking(t, "home_sftp")

ssh_home_dir_sftp(t) ==
    /\ pc[t] = "home_sftp"
    /\ \/ Step(t, "home_realpath")
       \/ Return(t, Err("sftp"), TRUE)

ssh_home_dir_realpath(t) ==
    /\ pc[t] = "home_realpath"
    /\ \/ Return(t, Ok("path"), TRUE)
       \/ Return(t, Err("non-utf8 path"), TRUE)
       \/ Return(t, Err("realpath"), TRUE)

\* ------------------------------------------------------------------------
\* ssh_sftp_list
\* ------------------------------------------------------------------------
ssh_sftp_list_lookup(t) ==
    /\ pc[t] = "list_lookup"
    /\ Lookup(t, "list_lock")

ssh_sftp_list_lock(t) ==
    /\ pc[t] = "list_lock"
    /\ LockSession(t, "list_set_blocking")

ssh_sftp_list_set_blocking(t) ==
    /\ pc[t] = "list_set_blocking"
    /\ SetBlocking(t, "list_sftp")

ssh_sftp_list_sftp(t) ==
    /\ pc[t] = "list_sftp"
    /\ \/ Step(t, "list_readdir")
       \/ Return(t, Err("sftp"), TRUE)

ssh_sftp_list_readdir(t) ==
    /\ pc[t] = "list_readdir"
    /\ \/ Return(t, Ok("entries"), TRUE)
       \/ Return(t, Err("readdir"), TRUE)

\* ------------------------------------------------------------------------
\* ssh_sftp_read
\* ------------------------------------------------------------------------
ssh_sftp_read_lookup(t) ==
    /\ pc[t] = "read_lookup"
    /\ Lookup(t, "read_lock")

ssh_sftp_read_lock(t) ==
    /\ pc[t] = "read_lock"
    /\ LockSession(t, "read_set_blocking")

ssh_sftp_read_set_blocking(t) ==
    /\ pc[t] = "read_set_blocking"
    /\ SetBlocking(t, "read_sftp")

ssh_sftp_read_sftp(t) ==
    /\ pc[t] = "read_sftp"
    /\ \/ Step(t, "read_open")
       \/ Return(t, Err("sftp"), TRUE)

ssh_sftp_read_open(t) ==
    /\ pc[t] = "read_open"
    /\ \/ Step(t, "read_file")
       \/ Return(t, Err("open"), TRUE)

ssh_sftp_read_file(t) ==
    /\ pc[t] = "read_file"
    /\ \/ cnt[t] < MaxReads /\ Again(t)
       \/ Return(t, Ok("b64"), TRUE)
       \/ Return(t, Err("read"), TRUE)

\* ------------------------------------------------------------------------
\* ssh_sftp_mkdirs
\* ------------------------------------------------------------------------
ssh_sftp_mkdirs_lookup(t) ==
    /\ pc[t] = "mkdirs_lookup"
    /\ Lookup(t, "mkdirs_lock")

ssh_sftp_mkdirs_lock(t) ==
    /\ pc[t] = "mkdirs_lock"
    /\ LockSession(t, "mkdirs_set_blocking")

ssh_sftp_mkdirs_set_blocking(t) ==
    /\ pc[t] = "mkdirs_set_blocking"
    /\ SetBlocking(t, "mkdirs_sftp")

\* sftp(), then the path is split into its parts
ssh_sftp_mkdirs_sftp(t) ==
    /\ pc[t] = "mkdirs_sftp"
    /\ \/ \E n \in 0..MaxParts :
             /\ Goto(t, "mkdirs_part")
             /\ cnt' = [cnt EXCEPT ![t] = n]
             /\ UNCHANGED <<ssh, regLock, sessLock, blocking, issued,
                            known_hosts, op, sid, ret, modeBefore,
                            modeAfter, connVars>>
       \/ Return(t, Err("sftp"), TRUE)

\* one part: stat, mkdir, and stat again after a failed mkdir; cnt[t] parts
\* are left
ssh_sftp_mkdirs_part(t) ==
    /\ pc[t] = "mkdirs_part"
    /\ IF cnt[t] = 0
       THEN Return(t, Ok("unit"), TRUE)
       ELSE \/ /\ cnt' = [cnt EXCEPT ![t] = cnt[t] - 1]
               /\ UNCHANGED <<ssh, regLock, sessLock, blocking, issued,
                              known_hosts, pc, op, sid, ret, modeBefore,
                              modeAfter, connVars, shellVars>>
            \/ Return(t, Err("mkdir"), TRUE)

\* ------------------------------------------------------------------------
\* ssh_sftp_write
\* ------------------------------------------------------------------------
ssh_sftp_write_lookup(t) ==
    /\ pc[t] = "write_lookup"
    /\ Lookup(t, "write_lock")

ssh_sftp_write_lock(t) ==
    /\ pc[t] = "write_lock"
    /\ LockSession(t, "write_set_blocking")

ssh_sftp_write_set_blocking(t) ==
    /\ pc[t] = "write_set_blocking"
    /\ SetBlocking(t, "write_sftp")

ssh_sftp_write_sftp(t) ==
    /\ pc[t] = "write_sftp"
    /\ \/ Step(t, "write_decode")
       \/ Return(t, Err("sftp"), TRUE)

\* base64 decode of data_b64; total = bytes.len(), cnt[t] chunks to write.
\* `.map_err(|e| e.to_string())?` returns with the session still blocking.
ssh_sftp_write_decode(t) ==
    /\ pc[t] = "write_decode"
    /\ \/ \E n \in 0..MaxChunks :
             /\ Goto(t, "write_create")
             /\ cnt' = [cnt EXCEPT ![t] = n]
             /\ UNCHANGED <<ssh, regLock, sessLock, blocking, issued,
                            known_hosts, op, sid, ret, modeBefore,
                            modeAfter, connVars>>
       \/ Return(t, Err("decode"), FALSE)

\* sftp.create(): its `?` returns with the session still blocking
ssh_sftp_write_create(t) ==
    /\ pc[t] = "write_create"
    /\ \/ Step(t, "write_chunk")
       \/ Return(t, Err("create"), FALSE)

\* while written < total { write_all(chunk) .. }
ssh_sftp_write_chunk(t) ==
    /\ pc[t] = "write_chunk"
    /\ IF cnt[t] = 0
       THEN Return(t, Ok("unit"), TRUE)
       ELSE \/ /\ cnt' = [cnt EXCEPT ![t] = cnt[t] - 1]
               /\ UNCHANGED <<ssh, regLock, sessLock, blocking, issued,
                              known_hosts, pc, op, sid, ret, modeBefore,
                              modeAfter, connVars, shellVars>>
            \/ Return(t, Err("Write failed"), TRUE)

\* ------------------------------------------------------------------------
\* ssh_deploy_helper (its first part is the ssh_exec above)
\* ------------------------------------------------------------------------
ssh_deploy_helper_lookup(t) ==
    /\ pc[t] = "deploy_lookup"
    /\ Lookup(t, "deploy_lock")

ssh_deploy_helper_lock(t) ==
    /\ pc[t] = "deploy_lock"
    /\ LockSession(t, "deploy_set_blocking")

ssh_deploy_helper_set_blocking(t) ==
    /\ pc[t] = "deploy_set_blocking"
    /\ SetBlocking(t, "deploy_sftp")

ssh_deploy_helper_sftp(t) ==
    /\ pc[t] = "deploy_sftp"
    /\ \/ Step(t, "deploy_create")
       \/ Return(t, Err("sftp"), TRUE)

\* total = helper_binary.len(); sftp.create() with a bare `?`
ssh_deploy_helper_create(t) ==
    /\ pc[t] = "deploy_create"
    /\ \/ \E n \in 0..MaxChunks :
             /\ Goto(t, "deploy_chunk")
             /\ cnt' = [cnt EXCEPT ![t] = n]
             /\ UNCHANGED <<ssh, regLock, sessLock, blocking, issued,
                            known_hosts, op, sid, ret, modeBefore,
                            modeAfter, connVars>>
       \/ Return(t, Err("create"), FALSE)

ssh_deploy_helper_chunk(t) ==
    /\ pc[t] = "deploy_chunk"
    /\ IF cnt[t] = 0
       THEN Return(t, Ok("unit"), TRUE)
       ELSE \/ /\ cnt' = [cnt EXCEPT ![t] = cnt[t] - 1]
               /\ UNCHANGED <<ssh, regLock, sessLock, blocking, issued,
                              known_hosts, pc, op, sid, ret, modeBefore,
                              modeAfter, connVars, shellVars>>
            \/ Return(t, Err("Write failed"), TRUE)

\* ------------------------------------------------------------------------
\* ssh_sftp_download
\* ------------------------------------------------------------------------
ssh_sftp_download_lookup(t) ==
    /\ pc[t] = "dl_lookup"
    /\ Lookup(t, "dl_lock")

ssh_sftp_download_lock(t) ==
    /\ pc[t] = "dl_lock"
    /\ LockSession(t, "dl_set_blocking")

ssh_sftp_download_set_blocking(t) ==
    /\ pc[t] = "dl_set_blocking"
    /\ SetBlocking(t, "dl_sftp")

\* The block that yields the sftp handle ends here: both guards are dropped
\* and "blocking mode stays on" for the transfer that follows.
KeepHandle(t, next) ==
    /\ ReleaseAll(t)
    /\ Goto(t, next)
    /\ UNCHANGED <<ssh, blocking, issued, known_hosts, op, sid, cnt, ret,
                   modeBefore, modeAfter, connVars>>

ssh_sftp_download_sftp(t) ==
    /\ pc[t] = "dl_sftp"
    /\ \/ KeepHandle(t, "dl_open")
       \/ Return(t, Err("sftp"), TRUE)

\* sftp.open(remote_path) with a bare `?`
ssh_sftp_download_open(t) ==
    /\ pc[t] = "dl_open"
    /\ \/ Step(t, "dl_create")
       \/ Return(t, Err("open"), FALSE)

\* std::fs::File::create(local_path) with a bare `?`
ssh_sftp_download_create(t) ==
    /\ pc[t] = "dl_create"
    /\ \/ Step(t, "dl_read")
       \/ Return(t, Err("create"), FALSE)

\* loop { remote.read(); local.write_all()? }
ssh_sftp_download_read(t) ==
    /\ pc[t] = "dl_read"
    /\ \/ cnt[t] < MaxReads /\ Again(t)
       \/ Leave(t, "dl_relock")
       \/ Return(t, Err("read"), FALSE)
       \/ Return(t, Err("write_all"), FALSE)

\* the second state.inner.lock()
Relock(t, next) ==
    /\ LockFree(regLock)
    /\ regLock' = t
    /\ Goto(t, next)
    /\ UNCHANGED <<ssh, sessLock, blocking, issued, known_hosts, op, sid,
                   cnt, ret, modeBefore, modeAfter, connVars>>

ssh_sftp_download_relock(t) ==
    /\ pc[t] = "dl_relock"
    /\ Relock(t, "dl_restore")

\* if let Some(s) = inner.ssh.get_mut(&session_id) { set_blocking(false) }
ssh_sftp_download_restore(t) ==
    /\ pc[t] = "dl_restore"
    /\ Return(t, Ok("unit"), sid[t] \in DOMAIN ssh)

\* ------------------------------------------------------------------------
\* ssh_sftp_download_dir
\* ------------------------------------------------------------------------
ssh_sftp_download_dir_lookup(t) ==
    /\ pc[t] = "dd_lookup"
    /\ Lookup(t, "dd_lock")

ssh_sftp_download_dir_lock(t) ==
    /\ pc[t] = "dd_lock"
    /\ LockSession(t, "dd_set_blocking")

ssh_sftp_download_dir_set_blocking(t) ==
    /\ pc[t] = "dd_set_blocking"
    /\ SetBlocking(t, "dd_sftp")

ssh_sftp_download_dir_sftp(t) ==
    /\ pc[t] = "dd_sftp"
    /\ \/ KeepHandle(t, "dd_mkroot")
       \/ Return(t, Err("sftp"), TRUE)

\* std::fs::create_dir_all(&local_root) with a bare `?`
ssh_sftp_download_dir_mkroot(t) ==
    /\ pc[t] = "dd_mkroot"
    /\ \/ Step(t, "dd_walk")
       \/ Return(t, Err("create_dir_all"), FALSE)

\* download_recursive: readdir / open / read on the sftp handle; its result
\* is kept and returned after the mode has been restored
ssh_sftp_download_dir_walk(t) ==
    /\ pc[t] = "dd_walk"
    /\ \/ cnt[t] < MaxReads /\ Again(t)
       \/ \E r \in {Ok("unit"), Err("download_recursive")} :
             /\ Goto(t, "dd_relock")
             /\ ret' = [ret EXCEPT ![t] = r]
             /\ cnt' = [cnt EXCEPT ![t] = 0]
             /\ UNCHANGED <<ssh, regLock, sessLock, blocking, issued,
                            known_hosts, op, sid, modeBefore, modeAfter,
                            connVars>>

ssh_sftp_download_dir_relock(t) ==
    /\ pc[t] = "dd_relock"
    /\ Relock(t, "dd_restore")

ssh_sftp_download_dir_restore(t) ==
    /\ pc[t] = "dd_restore"
    /\ Return(t, ret[t], sid[t] \in DOMAIN ssh)

\* ------------------------------------------------------------------------
\* ssh_disconnect
\* ------------------------------------------------------------------------
\* state.inner.lock(); inner.ssh.remove(&session_id)
ssh_disconnect_remove(t) ==
    /\ pc[t] = "disc_remove"
    /\ LockFree(regLock)
    /\ IF sid[t] \in DOMAIN ssh
       THEN /\ ssh' = [s \in DOMAIN ssh \ {sid[t]} |-> ssh[s]]
            /\ regLock' = t
            /\ Goto(t, "disc_bye")
            /\ UNCHANGED <<sessLock, blocking, ret, cnt, modeAfter>>
       ELSE /\ Finish(t, Ok("unit"), FALSE)
            /\ UNCHANGED ssh
    /\ UNCHANGED <<issued, known_hosts, op, sid, modeBefore, connVars>>

\* s.sess.disconnect(None, "bye", None) on a handle that is normally in
\* non-blocking mode: the message is sent, or the call fails (WouldBlock
\* included) with nothing sent
DisconnectSent == BOOLEAN

\* let _ = s.sess.disconnect(None, "bye", None): the result is ignored and
\* the removed SshSession dropped; Ok(())
ssh_disconnect_bye(t) ==
    /\ pc[t] = "disc_bye"
    /\ \E sent \in DisconnectSent :
          bye' = [bye EXCEPT ![sid[t]] = sent]
    /\ pc' = [pc EXCEPT ![t] = "done"]
    /\ ret' = [ret EXCEPT ![t] = Ok("unit")]
    /\ cnt' = [cnt EXCEPT ![t] = 0]
    /\ modeAfter' = [modeAfter EXCEPT ![t] = blocking[sid[t]]]
    /\ ReleaseAll(t)
    /\ UNCHANGED <<ssh, blocking, issued, known_hosts, op, sid, modeBefore,
                   connVars, shellCore, extVars>>

\* ------------------------------------------------------------------------
\* ssh_connect
\* ------------------------------------------------------------------------
Profiles ==
    [host : Hosts, port : Ports, user : Users, auth : AuthShapes,
     trust_host : TrustFlags]

\* a variant that reports the default port
PromptDefaultPort(h, port, hk) ==
    [kind |-> "Err", msg |-> "KNOWN_HOSTS_PROMPT", host |-> h, port |-> 22,
     keyType |-> KeyTypeForPrompt(hk.type),
     fingerprintSHA256 |-> FingerprintSHA256(hk.key)]

\* the confirmation payload returned as the error string
Prompt(h, port, hk) ==
    [kind |-> "Err", msg |-> "KNOWN_HOSTS_PROMPT", host |-> h, port |-> port,
     keyType |-> KeyTypeForPrompt(hk.type),
     fingerprintSHA256 |-> FingerprintSHA256(hk.key)]

\* ssh_connect returns r; it holds no lock and has touched no session mode
ConnectReturn(t, r) ==
    /\ Goto(t, "done")
    /\ ret' = [ret EXCEPT ![t] = r]
    /\ UNCHANGED <<ssh, regLock, sessLock, blocking, op, sid, cnt,
                   modeBefore, modeAfter, prof>>

\* a caller invokes ssh_connect(profile); an identifier is still available
ssh_connect_call(t) ==
    /\ pc[t] = "idle"
    /\ issued # SessionIds
    /\ \E p \in Profiles : prof' = [prof EXCEPT ![t] = p]
    /\ op' = [op EXCEPT ![t] = "ssh_connect"]
    /\ Goto(t, "connect_tcp")
    /\ UNCHANGED <<sessVars, known_hosts, sid, cnt, ret, modeBefore,
                   modeAfter, srv, chk, trace>>

\* TcpStream::connect, Session::new, handshake: the server presents its key
ssh_connect_handshake(t) ==
    /\ pc[t] = "connect_tcp"
    /\ \/ /\ \E hk \in HostKeys : srv' = [srv EXCEPT ![t] = hk]
          /\ trace' = [trace EXCEPT ![t] = Append(trace[t], "handshake")]
          /\ Goto(t, "connect_check")
          /\ UNCHANGED <<ssh, regLock, sessLock, blocking, op, sid, cnt, ret,
                         modeBefore, modeAfter, prof>>
       \/ /\ \E m \in {"tcp connect", "session", "handshake"} :
                ConnectReturn(t, Err(m))
          /\ UNCHANGED <<srv, trace>>
    /\ UNCHANGED <<issued, known_hosts, chk>>

\* sess.known_hosts(), HOME, kh.read_file, sess.host_key(), kh.check: the
\* check is skipped when the handle, HOME or the host key is missing; a file
\* that cannot be read leaves the list of entries empty
ssh_connect_check(t) ==
    /\ pc[t] = "connect_check"
    /\ \/ /\ \E why \in {"known_hosts", "HOME", "host_key"} :
                chk' = [chk EXCEPT ![t] = "Skipped"]
          /\ Goto(t, "connect_auth")
          /\ UNCHANGED trace
       \/ /\ \E entries \in {known_hosts, <<>>} :
                \E r \in {KnownHostsCheck(entries, Normalize(prof[t].host),
                                          srv[t]), "Failure"} :
                   chk' = [chk EXCEPT ![t] = r]
          /\ trace' = [trace EXCEPT ![t] = Append(trace[t], "check")]
          /\ Goto(t, "connect_decide")
    /\ UNCHANGED <<sessVars, known_hosts, op, sid, cnt, ret, modeBefore,
                   modeAfter, prof, srv>>

\* the known-hosts file after the append of line: OpenOptions::open may
\* fail and write_all may fail, both silently; neither adds a line
AppendOutcomes(file, line) ==
    {[file |-> Append(file, line), event |-> "append"],
     [file |-> file, event |-> "append_failed"]}

\* a variant in which auto-trust also accepts a changed key
DecisionTrustOverridesMismatch(c, trust) ==
    CASE c = "Match" -> "proceed"
      [] c = "Mismatch" -> IF trust THEN "append" ELSE "reject"
      [] c \in {"NotFound", "Failure"} -> IF trust THEN "append" ELSE "prompt"

\* a variant in which auto-trust rewrites the line of a matching key
DecisionAppendOnMatch(c, trust) ==
    CASE c = "Match" -> IF trust THEN "append" ELSE "proceed"
      [] c = "Mismatch" -> "reject"
      [] c \in {"NotFound", "Failure"} -> IF trust THEN "append" ELSE "prompt"

\* the match on the check result c with auto-trust flag trust
Decision(c, trust) ==
    CASE c = "Match" -> "proceed"
      [] c = "Mismatch" -> "reject"
      [] c \in {"NotFound", "Failure"} -> IF trust THEN "append" ELSE "prompt"

\* what ssh_connect does after kh.check
ssh_connect_decide(t) ==
    /\ pc[t] = "connect_decide"
    /\ LET h == Normalize(prof[t].host)
           d == Decision(chk[t], TrustHost(prof[t]))
       IN CASE d = "proceed" ->
                  /\ Goto(t, "connect_auth")
                  /\ UNCHANGED <<known_hosts, trace, ret>>
            [] d = "reject" ->
                  /\ Goto(t, "done")
                  /\ ret' = [ret EXCEPT ![t] = Err("known_hosts mismatch")]
                  /\ UNCHANGED <<known_hosts, trace>>
            [] d = "append" ->
                  /\ Len(known_hosts) < MaxKnownHosts
                  /\ \E o \in AppendOutcomes(known_hosts,
                                             KnownHostsLine(h, srv[t])) :
                        /\ known_hosts' = o.file
                        /\ trace' = [trace EXCEPT
                                        ![t] = Append(trace[t], o.event)]
                  /\ accepted' = IF observing
                                 THEN accepted \cup {<<h, Base64(srv[t].key)>>}
                                 ELSE accepted
                  /\ pc' = [pc EXCEPT ![t] = "connect_auth"]
                  /\ UNCHANGED <<shellCore, bye, mkVars, upVars, lsVars,
                                 encVars, rdVars>>
                  /\ UNCHANGED ret
            [] d = "prompt" ->
                  /\ Goto(t, "done")
                  /\ ret' = [ret EXCEPT
                                ![t] = Prompt(h, prof[t].port, srv[t])]
                  /\ UNCHANGED <<known_hosts, trace>>
    /\ UNCHANGED <<sessVars, op, sid, cnt, modeBefore, modeAfter, prof, srv,
                   chk>>

\* the identifier generated by nanoid: one that has not been issued
FreshIds == SessionIds \ issued

\* the auth shapes that name a method
AuthMethods == {"agent", "password", "key_path"}

\* a variant with one message for every request without a method
NoMethodErrorUniform(a) == "no auth method provided"

\* the error of a request that names no method: auth is None, or it is
\* Some(SshAuth) with agent false and neither password nor key_path
NoMethodError(a) ==
    IF a = "None" THEN "missing auth" ELSE "no auth method provided"

\* how the auth call for a method can end: the call itself fails, it returns
\* but sess.authenticated() is false, or the session is authenticated
AuthOutcomes == {"call failed", "unauthenticated", "authenticated"}

\* the error returned after the auth call for method a ended as out
AuthError(a, out) ==
    [kind |-> "Err",
     msg |-> IF out = "unauthenticated" THEN "authentication failed"
             ELSE IF out = "authenticated" THEN "set_nonblocking"
             ELSE IF a = "agent" THEN "agent auth failed"
             ELSE IF a = "password" THEN "auth pw"
             ELSE "auth key",
     cause |-> out]

\* a variant that leaves the new session in blocking mode
ConfiguredModeBlocking == TRUE

\* sess.set_blocking(false): the blocking mode a connect leaves behind
ConfiguredMode == FALSE

\* Authentication and session configuration.  A credential is offered to
\* the server for an agent, a password or a key file; the session is
\* configured and its id generated only when it is authenticated.
ssh_connect_auth(t) ==
    /\ pc[t] = "connect_auth"
    /\ LET a == prof[t].auth
       IN \/ /\ a \notin AuthMethods
             /\ ConnectReturn(t, Err(NoMethodError(a)))
             /\ UNCHANGED <<issued, trace>>
          \/ /\ a = "agent"
             /\ ConnectReturn(t, Err("agent"))
             /\ UNCHANGED <<issued, trace>>
          \/ /\ a \in AuthMethods
             /\ trace' = [trace EXCEPT ![t] = Append(trace[t], "auth")]
             /\ \/ /\ \E out \in AuthOutcomes :
                         ConnectReturn(t, AuthError(a, out))
                   /\ UNCHANGED issued
                \/ \E id \in FreshIds :
                      /\ issued' = issued \cup {id}
                      /\ sid' = [sid EXCEPT ![t] = id]
                      /\ blocking' = [blocking EXCEPT ![id] = ConfiguredMode]
                      /\ sessLock' = [sessLock EXCEPT ![id] = NoThread]
                      /\ Goto(t, "connect_insert")
                      /\ UNCHANGED <<ssh, regLock, op, cnt, ret, modeBefore,
                                     modeAfter, prof>>
    /\ UNCHANGED <<known_hosts, srv, chk>>

\* state.inner.lock(); inner.ssh.insert(id, SshSession { .. }); Ok(id)
ssh_connect_insert(t) ==
    /\ pc[t] = "connect_insert"
    /\ LockFree(regLock)
    /\ ssh' = [s \in DOMAIN ssh \cup {sid[t]} |->
                  IF s = sid[t]
                  THEN [host |-> Normalize(prof[t].host),
                        port |-> prof[t].port,
                        user |-> prof[t].user,
                        auth |-> prof[t].auth,
                        is_primary |-> TRUE]
                  ELSE ssh[s]]
    /\ Goto(t, "done")
    /\ ret' = [ret EXCEPT ![t] = Ok(sid[t])]
    /\ UNCHANGED <<regLock, sessLock, blocking, issued, known_hosts, op, sid,
                   cnt, modeBefore, modeAfter, connVars>>

\* ------------------------------------------------------------------------
\* Calls and returns
\* ------------------------------------------------------------------------
Entry(o) ==
    CASE o = "ssh_exec" -> "exec_lookup"
      [] o = "ssh_home_dir" -> "home_lookup"
      [] o = "ssh_sftp_list" -> "list_lookup"
      [] o = "ssh_sftp_read" -> "read_lookup"
      [] o = "ssh_sftp_mkdirs" -> "mkdirs_lookup"
      [] o = "ssh_sftp_write" -> "write_lookup"
      [] o = "ssh_deploy_helper" -> "exec_lookup"
      [] o = "ssh_sftp_download" -> "dl_lookup"
      [] o = "ssh_sftp_download_dir" -> "dd_lookup"
      [] o = "ssh_disconnect" -> "disc_remove"

\* the commands that switch a session to blocking mode
BlockingOps ==
    {"ssh_exec", "ssh_home_dir", "ssh_sftp_list", "ssh_sftp_read",
     "ssh_sftp_mkdirs", "ssh_sftp_write", "ssh_deploy_helper",
     "ssh_sftp_download", "ssh_sftp_download_dir"}

SessionOps == BlockingOps \cup {"ssh_disconnect"}

\* a caller thread invokes command o on session id s
Call(t) ==
    /\ pc[t] = "idle"
    /\ \E o \in SessionOps, s \in SessionIds :
          /\ op' = [op EXCEPT ![t] = o]
          /\ sid' = [sid EXCEPT ![t] = s]
          /\ pc' = [pc EXCEPT ![t] = Entry(o)]
          /\ modeBefore' = [modeBefore EXCEPT ![t] = blocking[s]]
          /\ modeAfter' = [modeAfter EXCEPT ![t] = blocking[s]]
    /\ ret' = [ret EXCEPT ![t] = NoRet]
    /\ UNCHANGED <<sessVars, known_hosts, cnt, connVars, shellVars>>

\* the caller has taken the result
Done(t) ==
    /\ pc[t] = "done"
    /\ pc' = [pc EXCEPT ![t] = "idle"]
    /\ op' = [op EXCEPT ![t] = "none"]
    /\ sid' = [sid EXCEPT ![t] = NoSession]
    /\ ret' = [ret EXCEPT ![t] = NoRet]
    /\ modeBefore' = [modeBefore EXCEPT ![t] = FALSE]
    /\ modeAfter' = [modeAfter EXCEPT ![t] = FALSE]
    /\ prof' = [prof EXCEPT ![t] = NoProfile]
    /\ srv' = [srv EXCEPT ![t] = NoHostKey]
    /\ chk' = [chk EXCEPT ![t] = "none"]
    /\ trace' = [trace EXCEPT ![t] = <<>>]
    /\ UNCHANGED <<sessVars, known_hosts, cnt, shellVars>>

\* ------------------------------------------------------------------------
\* Sessions as ssh_connect registers them
\* ------------------------------------------------------------------------
EstablishedSession ==
    [host |-> <<"f", "a">>, port |-> 22, user |-> "alice",
     auth |-> "password", is_primary |-> TRUE]

\* how ssh_connect produced session s: the first session of its group, its
\* host key found in the known-hosts store
ConnectOrigin(s) == [by |-> "ssh_connect", root |-> s, check |-> "Match"]

ThreadInit ==
    /\ pc = [t \in Threads |-> "idle"]
    /\ op = [t \in Threads |-> "none"]
    /\ sid = [t \in Threads |-> NoSession]
    /\ cnt = [t \in Threads |-> 0]
    /\ ret = [t \in Threads |-> NoRet]
    /\ modeBefore = [t \in Threads |-> FALSE]
    /\ modeAfter = [t \in Threads |-> FALSE]
    /\ prof = [t \in Threads |-> NoProfile]
    /\ srv = [t \in Threads |-> NoHostKey]
    /\ chk = [t \in Threads |-> "none"]
    /\ trace = [t \in Threads |-> <<>>]
    /\ cid = [t \in Threads |-> NoChannel]
    /\ nsid = [t \in Threads |-> NoSession]

\* no call of the file-system model is in progress
NoMkdirs ==
    /\ path = <<>>
    /\ rfs = <<>>
    /\ mkPc = "off"
    /\ parts = <<>>
    /\ cur = <<>>
    /\ rfs0 = <<>>
    /\ made = {}
    /\ mkErr = "none"
    /\ mkRets = <<>>

\* no upload is in progress
NoUpload ==
    /\ upOp = "none"
    /\ total = 0
    /\ written = 0
    /\ progress = <<>>
    /\ upPc = "off"
    /\ upRet = NoRet

\* no listing is in progress
NoListing ==
    /\ lsDir = <<>>
    /\ lsEntries = <<>>
    /\ lsOut = <<>>
    /\ lsPc = "off"

\* the file-system and data models are at rest
\* a new EncryptionManager, no key file and no encrypted profiles
NoCrypto ==
    /\ master_key = NoRet
    /\ salt = NoRet
    /\ fallback = NoRet
    /\ encFile = NoRet
    /\ setPw = "none"
    /\ verQ = "none"
    /\ verRet = NoRet
    /\ data = ""
    /\ value = NoRet
    /\ sealed = NoRet
    /\ opened = NoRet
    /\ encPc = "idle"

\* buf[..n] before the first read
NoChunk == [seq |-> 0, len |-> 0]

\* nothing has been read or emitted
NothingRead ==
    /\ rres = [c \in ChannelIds |-> "none"]
    /\ reads = [c \in ChannelIds |-> <<>>]
    /\ rbuf = [c \in ChannelIds |-> NoChunk]
    /\ emitted = [c \in ChannelIds |-> <<>>]

\* the reader's reads and events are not recorded
NoObserver == NothingRead /\ accepted = {} /\ observing = FALSE

AtRest == NoMkdirs /\ NoUpload /\ NoListing /\ NoCrypto

Quiet == AtRest /\ NoObserver

\* no shell has been opened and no forward started
NoShells ==
    /\ ssh_channels = <<>>
    /\ chanLock = [c \in ChannelIds |-> NoThread]
    /\ chanState = [c \in ChannelIds |-> "none"]
    /\ forwards = <<>>
    /\ fwdEvents = [f \in ForwardIds |-> <<>>]
    /\ child = [f \in ForwardIds |-> "none"]
    /\ bye = [s \in SessionIds |-> FALSE]
    /\ exitEvents = [c \in ChannelIds |-> 0]
    /\ rpc = [c \in ChannelIds |-> "none"]
    /\ rsid = [c \in ChannelIds |-> NoSession]

\* Two sessions have been established by ssh_connect: registered, in
\* non-blocking mode, nobody holding a lock.
Init ==
    /\ ssh = [s \in SessionIds |-> EstablishedSession]
    /\ regLock = NoThread
    /\ sessLock = [s \in SessionIds |-> NoThread]
    /\ blocking = [s \in SessionIds |-> FALSE]
    /\ issued = SessionIds
    /\ known_hosts = <<>>
    /\ ThreadInit
    /\ NoShells
    /\ origin = [s \in SessionIds |-> ConnectOrigin(s)]
    /\ Quiet

Next ==
    \E t \in Threads :
       \/ Call(t)
       \/ Done(t)
       \/ ssh_exec_lookup(t)
       \/ ssh_exec_lock(t)
       \/ ssh_exec_set_blocking(t)
       \/ ssh_exec_channel(t)
       \/ ssh_exec_exec(t)
       \/ ssh_exec_stdout(t)
       \/ ssh_exec_stderr(t)
       \/ ssh_exec_wait_close(t)
       \/ ssh_home_dir_lookup(t)
       \/ ssh_home_dir_set_blocking(t)
       \/ ssh_home_dir_sftp(t)
       \/ ssh_home_dir_realpath(t)
       \/ ssh_sftp_list_lookup(t)
       \/ ssh_sftp_list_lock(t)
       \/ ssh_sftp_list_set_blocking(t)
       \/ ssh_sftp_list_sftp(t)
       \/ ssh_sftp_list_readdir(t)
       \/ ssh_sftp_read_lookup(t)
       \/ ssh_sftp_read_lock(t)
       \/ ssh_sftp_read_set_blocking(t)
       \/ ssh_sftp_read_sftp(t)
       \/ ssh_sftp_read_open(t)
       \/ ssh_sftp_read_file(t)
       \/ ssh_sftp_mkdirs_lookup(t)
       \/ ssh_sftp_mkdirs_lock(t)
       \/ ssh_sftp_mkdirs_set_blocking(t)
       \/ ssh_sftp_mkdirs_sftp(t)
       \/ ssh_sftp_mkdirs_part(t)
       \/ ssh_sftp_write_lookup(t)
       \/ ssh_sftp_write_lock(t)
       \/ ssh_sftp_write_set_blocking(t)
       \/ ssh_sftp_write_sftp(t)
       \/ ssh_sftp_write_decode(t)
       \/ ssh_sftp_write_create(t)
       \/ ssh_sftp_write_chunk(t)
       \/ ssh_deploy_helper_lookup(t)
       \/ ssh_deploy_helper_lock(t)
       \/ ssh_deploy_helper_set_blocking(t)
       \/ ssh_deploy_helper_sftp(t)
       \/ ssh_deploy_helper_create(t)
       \/ ssh_deploy_helper_chunk(t)
       \/ ssh_sftp_download_lookup(t)
       \/ ssh_sftp_download_lock(t)
       \/ ssh_sftp_download_set_blocking(t)
       \/ ssh_sftp_download_sftp(t)
       \/ ssh_sftp_download_open(t)
       \/ ssh_sftp_download_create(t)
       \/ ssh_sftp_download_read(t)
       \/ ssh_sftp_download_relock(t)
       \/ ssh_sftp_download_restore(t)
       \/ ssh_sftp_download_dir_lookup(t)
       \/ ssh_sftp_download_dir_lock(t)
       \/ ssh_sftp_download_dir_set_blocking(t)
       \/ ssh_sftp_download_dir_sftp(t)
       \/ ssh_sftp_download_dir_mkroot(t)
       \/ ssh_sftp_download_dir_walk(t)
       \/ ssh_sftp_download_dir_relock(t)
       \/ ssh_sftp_download_dir_restore(t)
       \/ ssh_disconnect_remove(t)
       \/ ssh_disconnect_bye(t)

Spec == Init /\ [][Next]_vars

\* The state after construction: empty registry, no known host.
ConnectStart ==
    /\ ssh = <<>>
    /\ regLock = NoThread
    /\ sessLock = [s \in SessionIds |-> NoThread]
    /\ blocking = [s \in SessionIds |-> FALSE]
    /\ issued = {}
    /\ known_hosts = <<>>
    /\ ThreadInit
    /\ NoShells
    /\ origin = <<>>

InitConnect == ConnectStart /\ Quiet

NextConnect ==
    \E t \in ConnectCallers :
       \/ ssh_connect_call(t)
       \/ ssh_connect_handshake(t)
       \/ ssh_connect_check(t)
       \/ ssh_connect_decide(t)
       \/ ssh_connect_auth(t)
       \/ ssh_connect_insert(t)
       \/ Done(t)

SpecConnect == InitConnect /\ [][NextConnect]_vars

\* SpecTrust: the same connects, with the host keys accepted on auto-trust
\* recorded
InitTrust ==
    ConnectStart /\ AtRest /\ NothingRead /\ accepted = {} /\ observing = TRUE

NextTrust ==
    \E t \in ConnectCallers :
       \/ ssh_connect_call(t)
       \/ ssh_connect_handshake(t)
       \/ ssh_connect_check(t)
       \/ ssh_connect_decide(t)
       \/ ssh_connect_auth(t)
       \/ ssh_connect_insert(t)
       \/ Done(t)

SpecTrust == InitTrust /\ [][NextTrust]_vars

\* ------------------------------------------------------------------------
\* retry_would_block
\* ------------------------------------------------------------------------
\* the max_retries every call site of ssh_open_shell passes
MaxRetries == 10

\* the result of the closure f() at one attempt
WouldBlock == "Would block"
AttemptResults == {"Ok", WouldBlock, "Failure"}

\* the loop `for attempt in 0..max_retries` from the given attempt on;
\* results[i] is what f() returns at its i-th call
RECURSIVE RetryFrom(_, _, _)
RetryFrom(results, attempt, max_retries) ==
    IF attempt >= max_retries
    THEN Err("Max retries exceeded")
    ELSE LET r == results[attempt + 1]
         IN IF r = "Ok"
            THEN Ok("value")
            ELSE IF r = WouldBlock /\ attempt < max_retries - 1
                 THEN RetryFrom(results, attempt + 1, max_retries)
                 ELSE [kind |-> "Err", msg |-> "SSH operation failed",
                       attempts |-> attempt + 1, cause |-> r]

retry_would_block(results, max_retries) == RetryFrom(results, 0, max_retries)

\* what the library may answer to the attempts of one call: k times
\* WouldBlock, then the same final answer for the remaining attempts
RetryRuns ==
    { [i \in 1..MaxRetries |-> IF i <= k THEN WouldBlock ELSE last] :
        k \in 0..MaxRetries, last \in {"Ok", "Failure"} }

\* ------------------------------------------------------------------------
\* establish_ssh_connection, as ssh_open_shell calls it for a split
\* ------------------------------------------------------------------------
\* the errors it can return for an auth of shape a: the TCP connect, the
\* session, the handshake, then the authentication.  Some(SshAuth) with no
\* method makes no auth call and fails the authenticated() test.
EstablishErrors(a) ==
    {"tcp connect", "session", "handshake"} \cup
    CASE a = "None" -> {"no auth method provided"}
      [] a = "agent" -> {"agent", "agent auth failed", "authentication failed",
                         "set_nonblocking"}
      [] a = "password" -> {"auth pw", "authentication failed",
                            "set_nonblocking"}
      [] a = "key_path" -> {"auth key", "authentication failed",
                            "set_nonblocking"}
      [] a = "empty" -> {"authentication failed"}

\* it can return a session only after an auth call authenticated it
EstablishCanSucceed(a) == a \in {"agent", "password", "key_path"}

\* how ssh_open_shell produced a split of session s: no known-hosts check
SplitOrigin(s) ==
    [by |-> "ssh_open_shell", root |-> origin[s].root, check |-> "none"]

\* a variant that registers the split as primary
SplitSessionPrimary(p) ==
    [host |-> p.host, port |-> p.port, user |-> p.user, auth |-> p.auth,
     is_primary |-> TRUE]

\* the SshSession registered for a split cloned from the fields p
SplitSession(p) ==
    [host |-> p.host, port |-> p.port, user |-> p.user, auth |-> p.auth,
     is_primary |-> FALSE]

\* ------------------------------------------------------------------------
\* Shell commands: control flow and frame
\* ------------------------------------------------------------------------
regVars == <<ssh, ssh_channels, origin, issued, blocking>>
lockVars == <<regLock, sessLock, chanLock>>
readerVars == <<rpc, rsid, exitEvents>>
fwdVars == <<forwards, fwdEvents, child>>
\* what no shell command and no reader touches
shellFrame == <<known_hosts, cnt, modeBefore, modeAfter, srv, chk, trace, bye,
                extVars,
                op, sid>>
\* the same without the record of the reader
readerRest == <<known_hosts, cnt, modeBefore, modeAfter, srv, chk, trace, bye,
                mkVars, upVars, lsVars, encVars, observing, accepted, op,
                sid>>

Jump(t, l) ==
    /\ pc' = [pc EXCEPT ![t] = l]
    /\ UNCHANGED shellFrame

\* the command of t returns r: every guard it holds is dropped
ShellReturn(t, r) ==
    /\ Jump(t, "done")
    /\ ret' = [ret EXCEPT ![t] = r]
    /\ cid' = [cid EXCEPT ![t] = NoChannel]
    /\ nsid' = [nsid EXCEPT ![t] = NoSession]
    /\ regLock' = IF regLock = t THEN NoThread ELSE regLock
    /\ sessLock' = [s \in SessionIds |->
                       IF sessLock[s] = t THEN NoThread ELSE sessLock[s]]
    /\ chanLock' = [c \in ChannelIds |->
                       IF chanLock[c] = t THEN NoThread ELSE chanLock[c]]

\* ------------------------------------------------------------------------
\* ssh_open_shell
\* ------------------------------------------------------------------------
\* state.inner.lock(); inner.ssh.get(&session_id): host, port, user and auth
\* of the session are cloned, the guard dropped
ssh_open_shell_lookup(t) ==
    /\ pc[t] = "sh_lookup"
    /\ LockFree(regLock)
    /\ IF sid[t] \in DOMAIN ssh
       THEN /\ prof' = [prof EXCEPT ![t] =
                          [host |-> ssh[sid[t]].host, port |-> ssh[sid[t]].port,
                           user |-> ssh[sid[t]].user, auth |-> ssh[sid[t]].auth,
                           trust_host |-> "Some_true"]]
            /\ Jump(t, "sh_establish")
            /\ UNCHANGED <<ret, cid, nsid, lockVars>>
       ELSE /\ ShellReturn(t, Err("ssh session not found"))
            /\ UNCHANGED prof
    /\ UNCHANGED <<regVars, chanState, readerVars, fwdVars>>

\* establish_ssh_connection(&host, port, &user, &auth, true) and the new
\* session id: the session comes back authenticated and non-blocking
ssh_open_shell_establish(t) ==
    /\ pc[t] = "sh_establish"
    /\ \/ /\ \E m \in EstablishErrors(prof[t].auth) : ShellReturn(t, Err(m))
          /\ UNCHANGED <<issued, blocking>>
       \/ /\ EstablishCanSucceed(prof[t].auth)
          /\ \E id \in FreshIds :
                /\ issued' = issued \cup {id}
                /\ nsid' = [nsid EXCEPT ![t] = id]
                /\ blocking' = [blocking EXCEPT ![id] = ConfiguredMode]
                /\ sessLock' = [sessLock EXCEPT ![id] = NoThread]
          /\ Jump(t, "sh_insert")
          /\ UNCHANGED <<ret, cid, regLock, chanLock>>
    /\ UNCHANGED <<ssh, ssh_channels, origin, prof, chanState, readerVars,
                   fwdVars>>

\* inner.ssh.insert(new_session_id, SshSession { .., is_primary: false })
ssh_open_shell_insert(t) ==
    /\ pc[t] = "sh_insert"
    /\ LockFree(regLock)
    /\ ssh' = [s \in DOMAIN ssh \cup {nsid[t]} |->
                  IF s = nsid[t] THEN SplitSession(prof[t]) ELSE ssh[s]]
    /\ origin' = [s \in DOMAIN origin \cup {nsid[t]} |->
                     IF s = nsid[t] THEN SplitOrigin(sid[t]) ELSE origin[s]]
    /\ Jump(t, "sh_channel")
    /\ UNCHANGED <<ssh_channels, issued, blocking, lockVars, ret, prof, cid,
                   nsid, chanState, readerVars, fwdVars>>

\* a channel call made through retry_would_block(.., 10): go on at next
\* when it succeeds, return its error (under the name ctx when the call
\* site maps it) when it fails
Retried(t, ctx, next) ==
    /\ \E run \in RetryRuns :
          LET r == retry_would_block(run, MaxRetries)
          IN IF r.kind = "Ok"
             THEN /\ Jump(t, next)
                  /\ UNCHANGED <<ret, cid, nsid, lockVars>>
             ELSE ShellReturn(t, IF "cause" \in DOMAIN r
                                 THEN [r EXCEPT !.msg = ctx] ELSE r)
    /\ UNCHANGED <<regVars, prof, chanState, readerVars, fwdVars>>

\* retry_would_block(|| sess.channel_session(), 10)?
ssh_open_shell_channel(t) ==
    /\ pc[t] = "sh_channel"
    /\ Retried(t, "SSH operation failed", "sh_pty")

\* retry_would_block(|| chan.request_pty(..), 10)
ssh_open_shell_pty(t) ==
    /\ pc[t] = "sh_pty"
    /\ Retried(t, "request_pty", "sh_start")

\* chan.exec(cd cwd; exec $SHELL) when a cwd is given, chan.shell() otherwise
ssh_open_shell_start(t) ==
    /\ pc[t] = "sh_start"
    /\ \E ctx \in {"exec(shell)", "shell"} : Retried(t, ctx, "sh_register")

\* the channel id; inner.ssh_channels.insert(id, SshChannel { session_id:
\* new_session_id, .. }); SSH_OPENED is emitted
ssh_open_shell_register(t) ==
    /\ pc[t] = "sh_register"
    /\ LockFree(regLock)
    /\ \E c \in ChannelIds \ issued :
          /\ issued' = issued \cup {c}
          /\ cid' = [cid EXCEPT ![t] = c]
          /\ ssh_channels' = [x \in DOMAIN ssh_channels \cup {c} |->
                                IF x = c THEN [session_id |-> nsid[t]]
                                ELSE ssh_channels[x]]
          /\ chanState' = [chanState EXCEPT ![c] = "open"]
    /\ Jump(t, "sh_spawn")
    /\ UNCHANGED <<ssh, origin, blocking, lockVars, ret, prof, nsid,
                   readerVars, fwdVars>>

\* std::thread::spawn of the reader; Ok({channelId, sessionId})
ssh_open_shell_spawn(t) ==
    /\ pc[t] = "sh_spawn"
    /\ rpc' = [rpc EXCEPT ![cid[t]] = "r_top"]
    /\ ShellReturn(t, Ok([channelId |-> cid[t], sessionId |-> nsid[t]]))
    /\ UNCHANGED <<regVars, prof, chanState, rsid, exitEvents, fwdVars>>

\* ------------------------------------------------------------------------
\* The background reader of a channel (the thread ssh_open_shell spawns)
\* ------------------------------------------------------------------------
readerFrame == <<pc, ret, prof, cid, nsid>>

\* what guard.read(&mut buf) can return, by the state of the channel: an
\* open channel has data, would block or fails; after the remote end of
\* stream the buffered data and then Ok(0); after a local close() the
\* library reports end of stream, would block or an error
ReadResults(st) ==
    CASE st = "open" -> {"data", "would_block", "error"}
      [] st = "eof" -> {"data", "eof"}
      [] st = "closed" -> {"eof", "would_block", "error"}
      [] OTHER -> {"error"}

\* what guard.read(&mut buf) of the reader of c can return: the channel
\* shares the libssh2 session of its registry entry, and in blocking mode the
\* library waits for data instead of returning WouldBlock
ReadOutcomes(c) ==
    IF blocking[rsid[c]] THEN ReadResults(chanState[c]) \ {"would_block"}
    ELSE ReadResults(chanState[c])

\* the read of the reader of c waits for data of an open channel: it returns
\* only when the remote end sends some, closes the stream or fails
ReadWaits(c) ==
    rpc[c] = "r_read" /\ blocking[rsid[c]] /\ chanState[c] = "open"

\* the guards of the reader of c are dropped
ReaderRelease(c) ==
    /\ sessLock' = [s \in SessionIds |->
                       IF sessLock[s] = c THEN NoThread ELSE sessLock[s]]
    /\ chanLock' = [x \in ChannelIds |->
                       IF chanLock[x] = c THEN NoThread ELSE chanLock[x]]

ReaderGoto(c, l) ==
    /\ rpc' = [rpc EXCEPT ![c] = l]
    /\ UNCHANGED <<readerRest, readerFrame, regVars, regLock, fwdVars>>

\* the arm of the match on read_result: Ok(0) and an error other than
\* WouldBlock emit SSH_EXIT and break, WouldBlock continues, Ok(n) goes on to
\* emit SSH_OUTPUT
OnReadWouldBlockIsExit(r) == IF r = "data" THEN "output" ELSE "exit"

OnRead(r) ==
    CASE r \in {"eof", "error"} -> "exit"
      [] r = "would_block" -> "continue"
      [] r = "data" -> "output"

\* let mut buf = [0u8; 8192]
BufSize == 8192
\* the n of Ok(n): 1 to BufSize bytes
ReadSizes == {1, BufSize}
\* the data-carrying reads recorded for one channel
MaxRecorded == 2

\* the events
ExitEvent(c) == [event |-> "SSH_EXIT", channelId |-> c]
OutputEvent(c, bytes) ==
    [event |-> "SSH_OUTPUT", channelId |-> c, dataBytes |-> bytes]

\* the record of a read that returned r
Recorded(c, r) ==
    IF ~observing THEN UNCHANGED <<rres, reads, rbuf, emitted>>
    ELSE /\ rres' = [rres EXCEPT ![c] = r]
         /\ IF r = "data"
            THEN /\ Len(reads[c]) < MaxRecorded
                 /\ \E k \in ReadSizes :
                       LET chunk == [seq |-> Len(reads[c]) + 1, len |-> k]
                       IN  /\ reads' = [reads EXCEPT ![c] = Append(@, chunk)]
                           /\ rbuf' = [rbuf EXCEPT ![c] = chunk]
            ELSE UNCHANGED <<reads, rbuf>>
         /\ emitted' = IF OnRead(r) = "exit"
                       THEN [emitted EXCEPT ![c] = Append(@, ExitEvent(c))]
                       ELSE emitted

\* a variant in which the reader polls again for its channel
OnMissingChannelPoll == "r_top"

\* None => break: where the reader goes when its channel is not registered
OnMissingChannel == "r_end"

\* st.ssh_channels.get(&sid): None => break
reader_channel(c) ==
    /\ rpc[c] = "r_top"
    /\ LockFree(regLock)
    /\ IF c \in DOMAIN ssh_channels
       THEN /\ rsid' = [rsid EXCEPT ![c] = ssh_channels[c].session_id]
            /\ ReaderGoto(c, "r_session")
       ELSE /\ ReaderGoto(c, OnMissingChannel)
            /\ UNCHANGED rsid
    /\ UNCHANGED <<sessLock, chanLock, chanState, exitEvents,
                   rres, reads, rbuf, emitted>>

\* st.ssh.get(&session_id): None => break
reader_session(c) ==
    /\ rpc[c] = "r_session"
    /\ LockFree(regLock)
    /\ IF rsid[c] \in DOMAIN ssh
       THEN ReaderGoto(c, "r_lock_sess")
       ELSE ReaderGoto(c, "r_end")
    /\ UNCHANGED <<sessLock, chanLock, chanState, rsid, exitEvents,
                   rres, reads, rbuf, emitted>>

\* let _g = sess_lock.lock().unwrap()
reader_lock_session(c) ==
    /\ rpc[c] = "r_lock_sess"
    /\ LockFree(sessLock[rsid[c]])
    /\ sessLock' = [sessLock EXCEPT ![rsid[c]] = c]
    /\ ReaderGoto(c, "r_lock_chan")
    /\ UNCHANGED <<chanLock, chanState, rsid, exitEvents,
                   rres, reads, rbuf, emitted>>

\* let mut guard = arc.lock().unwrap()
reader_lock_channel(c) ==
    /\ rpc[c] = "r_lock_chan"
    /\ LockFree(chanLock[c])
    /\ chanLock' = [chanLock EXCEPT ![c] = c]
    /\ ReaderGoto(c, "r_read")
    /\ UNCHANGED <<sessLock, chanState, rsid, exitEvents,
                   rres, reads, rbuf, emitted>>

\* guard.read(&mut buf): Ok(0) and an error emit SSH_EXIT and break,
\* WouldBlock continues, Ok(n) leaves the block with n
reader_read(c) ==
    /\ rpc[c] = "r_read"
    /\ \E r \in ReadOutcomes(c) :
          /\ CASE OnRead(r) = "exit" ->
                    /\ exitEvents' = [exitEvents EXCEPT
                                         ![c] = exitEvents[c] + 1]
                    /\ ReaderGoto(c, "r_end")
               [] OnRead(r) = "continue" ->
                    /\ ReaderGoto(c, "r_top")
                    /\ UNCHANGED exitEvents
               [] OnRead(r) = "output" ->
                    /\ ReaderGoto(c, "r_output")
                    /\ UNCHANGED exitEvents
          /\ Recorded(c, r)
    /\ ReaderRelease(c)
    /\ UNCHANGED <<chanState, rsid>>

\* app.emit(SSH_OUTPUT, ..) and the next round of the loop
reader_output(c) ==
    /\ rpc[c] = "r_output"
    /\ ReaderGoto(c, "r_top")
    /\ IF observing
       THEN /\ emitted' = [emitted EXCEPT
                              ![c] = Append(@, OutputEvent(c, rbuf[c]))]
            /\ UNCHANGED <<rres, reads, rbuf>>
       ELSE UNCHANGED <<rres, reads, rbuf, emitted>>
    /\ UNCHANGED <<sessLock, chanLock, chanState, rsid, exitEvents>>

\* the remote side ends the stream (the shell exits)
RemoteEof(c) ==
    /\ chanState[c] = "open"
    /\ chanState' = [chanState EXCEPT ![c] = "eof"]
    /\ UNCHANGED <<shellFrame, readerFrame, regVars, lockVars, readerVars,
                   fwdVars>>

\* ------------------------------------------------------------------------
\* ssh_write, ssh_resize, ssh_close_shell
\* ------------------------------------------------------------------------
\* an error of the channel, as its to_string()
IoErr(c) == [kind |-> "Err", msg |-> "io", cause |-> c]

\* state.inner.lock(); ssh_channels.get(&channel_id) and, under the same
\* guard when both is TRUE, ssh.get(session_id)
ChannelLookup(t, both, next) ==
    /\ LockFree(regLock)
    /\ IF cid[t] \notin DOMAIN ssh_channels
       THEN ShellReturn(t, Err("channel not found"))
       ELSE IF both /\ ssh_channels[cid[t]].session_id \notin DOMAIN ssh
            THEN ShellReturn(t, Err("ssh session not found"))
            ELSE /\ nsid' = [nsid EXCEPT ![t] =
                                ssh_channels[cid[t]].session_id]
                 /\ Jump(t, next)
                 /\ UNCHANGED <<ret, cid, lockVars>>
    /\ UNCHANGED <<regVars, prof, chanState, readerVars, fwdVars>>

\* state.inner.lock(); ssh.get(&session_id) for the session id found
SessionLookup(t, next) ==
    /\ LockFree(regLock)
    /\ IF nsid[t] \notin DOMAIN ssh
       THEN ShellReturn(t, Err("ssh session not found"))
       ELSE /\ Jump(t, next)
            /\ UNCHANGED <<ret, cid, nsid, lockVars>>
    /\ UNCHANGED <<regVars, prof, chanState, readerVars, fwdVars>>

\* a variant that goes on without the session guard
LockOwnerSkipped(t, next) ==
    /\ Jump(t, next)
    /\ UNCHANGED <<regVars, lockVars, ret, prof, cid, nsid, chanState,
                   readerVars, fwdVars>>

\* sess_lock.lock()
LockOwner(t, next) ==
    /\ LockFree(sessLock[nsid[t]])
    /\ sessLock' = [sessLock EXCEPT ![nsid[t]] = t]
    /\ Jump(t, next)
    /\ UNCHANGED <<regVars, regLock, chanLock, ret, prof, cid, nsid,
                   chanState, readerVars, fwdVars>>

\* chan_arc.lock()
LockChannel(t, next) ==
    /\ LockFree(chanLock[cid[t]])
    /\ chanLock' = [chanLock EXCEPT ![cid[t]] = t]
    /\ Jump(t, next)
    /\ UNCHANGED <<regVars, regLock, sessLock, ret, prof, cid, nsid,
                   chanState, readerVars, fwdVars>>

\* a channel call made once under both guards; its error is returned
ChannelCall(t) ==
    /\ \E r \in {Ok("unit"), IoErr(WouldBlock), IoErr("Failure")} :
          ShellReturn(t, r)
    /\ UNCHANGED <<regVars, prof, chanState, readerVars, fwdVars>>

ssh_write_lookup(t) ==
    /\ pc[t] = "wr_lookup"
    /\ ChannelLookup(t, TRUE, "wr_lock_sess")

\* sess_lock.try_lock().or_else(|_| sess_lock.lock())
ssh_write_lock_session(t) ==
    /\ pc[t] = "wr_lock_sess"
    /\ LockOwner(t, "wr_lock_chan")

\* chan_arc.try_lock().or_else(|_| chan_arc.lock())
ssh_write_lock_channel(t) ==
    /\ pc[t] = "wr_lock_chan"
    /\ LockChannel(t, "wr_write")

\* chan_guard.write_all(data.as_bytes()).map_err(|e| e.to_string())?
ssh_write_write(t) ==
    /\ pc[t] = "wr_write"
    /\ ChannelCall(t)

ssh_resize_lookup(t) ==
    /\ pc[t] = "rs_lookup"
    /\ ChannelLookup(t, FALSE, "rs_session")

ssh_resize_session(t) ==
    /\ pc[t] = "rs_session"
    /\ SessionLookup(t, "rs_lock_sess")

ssh_resize_lock_session(t) ==
    /\ pc[t] = "rs_lock_sess"
    /\ LockOwner(t, "rs_lock_chan")

ssh_resize_lock_channel(t) ==
    /\ pc[t] = "rs_lock_chan"
    /\ LockChannel(t, "rs_request")

\* guard.request_pty_size(cols, rows, None, None).map_err(..)?
ssh_resize_request(t) ==
    /\ pc[t] = "rs_request"
    /\ ChannelCall(t)

ssh_close_shell_lookup(t) ==
    /\ pc[t] = "cl_lookup"
    /\ ChannelLookup(t, FALSE, "cl_session")

ssh_close_shell_session(t) ==
    /\ pc[t] = "cl_session"
    /\ SessionLookup(t, "cl_lock_sess")

ssh_close_shell_lock_session(t) ==
    /\ pc[t] = "cl_lock_sess"
    /\ LockOwner(t, "cl_lock_chan")

ssh_close_shell_lock_channel(t) ==
    /\ pc[t] = "cl_lock_chan"
    /\ LockChannel(t, "cl_close")

\* a variant of ssh_close_shell that keeps the session guard and the channel
\* guard while it removes the channel
ssh_close_shell_close_keeping_guards(t) ==
    /\ pc[t] = "cl_close"
    /\ chanState' = [chanState EXCEPT ![cid[t]] = "closed"]
    /\ Jump(t, "cl_remove")
    /\ UNCHANGED <<regVars, lockVars, ret, prof, cid, nsid, readerVars,
                   fwdVars>>

\* chan_arc.lock()?.close(), its result ignored; both guards are dropped
\* at the end of the block
ssh_close_shell_close(t) ==
    /\ pc[t] = "cl_close"
    /\ chanState' = [chanState EXCEPT ![cid[t]] = "closed"]
    /\ sessLock' = [s \in SessionIds |->
                       IF sessLock[s] = t THEN NoThread ELSE sessLock[s]]
    /\ chanLock' = [c \in ChannelIds |->
                       IF chanLock[c] = t THEN NoThread ELSE chanLock[c]]
    /\ Jump(t, "cl_remove")
    /\ UNCHANGED <<regVars, regLock, ret, prof, cid, nsid, readerVars,
                   fwdVars>>

\* state.inner.lock(); inner.ssh_channels.remove(&channel_id); Ok(())
ssh_close_shell_remove(t) ==
    /\ pc[t] = "cl_remove"
    /\ LockFree(regLock)
    /\ ssh_channels' = [x \in DOMAIN ssh_channels \ {cid[t]} |->
                           ssh_channels[x]]
    /\ ShellReturn(t, Ok("unit"))
    /\ UNCHANGED <<ssh, origin, issued, blocking, prof, chanState,
                   readerVars, fwdVars>>

\* ------------------------------------------------------------------------
\* ssh_set_primary
\* ------------------------------------------------------------------------
\* under the registry lock: is_primary = false for every session, then
\* is_primary = true for session_id if it is registered
ssh_set_primary(t) ==
    /\ pc[t] = "sp_set"
    /\ LockFree(regLock)
    /\ ssh' = [s \in DOMAIN ssh |-> [ssh[s] EXCEPT !.is_primary = (s = sid[t])]]
    /\ ShellReturn(t, IF sid[t] \in DOMAIN ssh THEN Ok("unit")
                      ELSE Err("session not found"))
    /\ UNCHANGED <<ssh_channels, origin, issued, blocking, prof, chanState,
                   readerVars, fwdVars>>

\* ssh_get_primary on the registry reg: Ok(Some(id)) for the first session
\* the iteration over the map finds with is_primary set, in whatever order
\* the map yields them, Ok(None) when there is none
ssh_get_primary(reg) ==
    IF \E s \in DOMAIN reg : reg[s].is_primary
    THEN {Ok([kind |-> "Some", val |-> s]) :
             s \in {x \in DOMAIN reg : reg[x].is_primary}}
    ELSE {Ok([kind |-> "None"])}

\* ------------------------------------------------------------------------
\* ssh_open_forward, ssh_close_forward
\* ------------------------------------------------------------------------
\* a variant that takes every forward id for a registered one
ForwardFoundAlways(f) == TRUE

\* if let Some(f) = inner.forwards.remove(&forward_id)
ForwardFound(f) == f \in DOMAIN forwards

\* app.emit(SSH_TUNNEL_STATE, {forwardId: f, status})
EmitTunnelState(f, status) ==
    fwdEvents' = [fwdEvents EXCEPT ![f] = Append(fwdEvents[f], status)]

\* a variant in which a failed spawn leaves a process behind
SpawnAlwaysRuns(ok) == "running"

\* Command::new("ssh") .. .spawn(): a running child process, or none
Spawn(ok) == IF ok THEN "running" ELSE "none"

\* a variant in which the process survives the kill
KillIgnored(st) == st

\* ch.kill(); ch.wait(): the process, running or already exited, has been
\* killed and reaped
KillAndWait(st) == IF st \in {"running", "exited"} THEN "terminated" ELSE st

fwdFrame == <<ssh, ssh_channels, origin, blocking, chanState, readerVars,
              prof, nsid>>

\* the forward id; state.inner.lock(), held until the function returns;
\* inner.ssh.get(&session_id)
ssh_open_forward_lookup(t) ==
    /\ pc[t] = "fw_lookup"
    /\ LockFree(regLock)
    /\ \E f \in ForwardIds \ issued :
          /\ issued' = issued \cup {f}
          /\ IF sid[t] \in DOMAIN ssh
             THEN /\ cid' = [cid EXCEPT ![t] = f]
                  /\ regLock' = t
                  /\ Jump(t, "fw_spawn")
                  /\ UNCHANGED <<ret, nsid, sessLock, chanLock>>
             ELSE ShellReturn(t, Err("ssh session not found"))
    /\ UNCHANGED <<ssh, ssh_channels, origin, blocking, chanState,
                   readerVars, prof, fwdVars>>

\* match forward.type: Command::new("ssh") .. spawn() in the arms "L" and
\* "R", an error in any other
ssh_open_forward_spawn(t) ==
    /\ pc[t] = "fw_spawn"
    /\ \/ \E ty \in {"L", "R"}, ok \in BOOLEAN :
             /\ child' = [child EXCEPT ![cid[t]] = Spawn(ok)]
             /\ IF ok
                THEN /\ Jump(t, IF ty = "L" THEN "fw_emit_L"
                                ELSE "fw_emit_R")
                     /\ UNCHANGED <<ret, cid, nsid, lockVars>>
                ELSE ShellReturn(t, Err("Failed to start SSH process"))
       \/ /\ ShellReturn(t, Err("unsupported forward type"))
          /\ UNCHANGED child
    /\ UNCHANGED <<ssh, ssh_channels, origin, issued, blocking, chanState,
                   readerVars, prof, forwards, fwdEvents>>

\* app.emit(SSH_TUNNEL_STATE, {forwardId: fid, status: "active"})
ssh_open_forward_emit(t) ==
    /\ pc[t] \in {"fw_emit_L", "fw_emit_R"}
    /\ EmitTunnelState(cid[t], "active")
    /\ Jump(t, IF pc[t] = "fw_emit_L" THEN "fw_insert_L" ELSE "fw_insert_R")
    /\ UNCHANGED <<fwdFrame, issued, lockVars, ret, cid, forwards, child>>

\* inner.forwards.insert(fid, SshForward { .. }); Ok(fid)
ssh_open_forward_insert(t) ==
    /\ pc[t] \in {"fw_insert_L", "fw_insert_R"}
    /\ forwards' = [f \in DOMAIN forwards \cup {cid[t]} |->
                       IF f = cid[t]
                       THEN [session_id |-> sid[t],
                             ftype |-> IF pc[t] = "fw_insert_L" THEN "Local"
                                       ELSE "Remote"]
                       ELSE forwards[f]]
    /\ ShellReturn(t, Ok(cid[t]))
    /\ UNCHANGED <<ssh, ssh_channels, origin, issued, blocking, chanState,
                   readerVars, prof, fwdEvents, child>>

\* state.inner.lock(); inner.forwards.remove(&forward_id)
ssh_close_forward_remove(t) ==
    /\ pc[t] = "fc_remove"
    /\ LockFree(regLock)
    /\ IF ForwardFound(cid[t])
       THEN /\ forwards' = [f \in DOMAIN forwards \ {cid[t]} |-> forwards[f]]
            /\ regLock' = t
            /\ Jump(t, "fc_kill")
            /\ UNCHANGED <<ret, cid, nsid, sessLock, chanLock>>
       ELSE /\ ShellReturn(t, Ok("unit"))
            /\ UNCHANGED forwards
    /\ UNCHANGED <<fwdFrame, issued, fwdEvents, child>>

\* ForwardBackend::SshProcess: ch.kill(); ch.wait(), their results ignored
ssh_close_forward_kill(t) ==
    /\ pc[t] = "fc_kill"
    /\ child' = [child EXCEPT ![cid[t]] = KillAndWait(child[cid[t]])]
    /\ Jump(t, "fc_emit")
    /\ UNCHANGED <<fwdFrame, issued, lockVars, ret, cid, forwards, fwdEvents>>

\* app.emit(SSH_TUNNEL_STATE, {forwardId, status: "closed"}); Ok(())
ssh_close_forward_emit(t) ==
    /\ pc[t] = "fc_emit"
    /\ EmitTunnelState(cid[t], "closed")
    /\ ShellReturn(t, Ok("unit"))
    /\ UNCHANGED <<ssh, ssh_channels, origin, issued, blocking, chanState,
                   readerVars, prof, forwards, child>>

\* what the exit of a forward's process leaves alone
childRest == <<sessVars, known_hosts, callVars, connVars, ssh_channels,
               chanLock, chanState, forwards, exitEvents, rpc, rsid, origin,
               cid, nsid, bye, extVars>>

\* a variant in which the exit of the process is noticed: the entry is
\* removed and "closed" is emitted
ChildExitsAndCloses(f) ==
    /\ child[f] = "running"
    /\ child' = [child EXCEPT ![f] = "exited"]
    /\ forwards' = [g \in DOMAIN forwards \ {f} |-> forwards[g]]
    /\ EmitTunnelState(f, "closed")
    /\ UNCHANGED <<sessVars, known_hosts, callVars, connVars, ssh_channels,
                   chanLock, chanState, exitEvents, rpc, rsid, origin, cid,
                   nsid, bye, extVars>>

\* the ssh -N process of a forward exits on its own (the connection is lost,
\* the authentication fails, the port is taken).  The Child is stored in the
\* SshForward and nothing waits on it or polls it: no thread is started for
\* it and try_wait is never called.
ChildExits(f) ==
    /\ child[f] = "running"
    /\ child' = [child EXCEPT ![f] = "exited"]
    /\ UNCHANGED <<childRest, fwdEvents>>

\* ------------------------------------------------------------------------
\* Calls of the shell and forward commands
\* ------------------------------------------------------------------------
ChannelOps == {"ssh_write", "ssh_resize", "ssh_close_shell"}
ShellOps ==
    ChannelOps \cup {"ssh_open_shell", "ssh_set_primary", "ssh_disconnect"}
ForwardOps == {"ssh_open_forward", "ssh_close_forward"}

ShellEntry(o) ==
    CASE o = "ssh_open_shell" -> "sh_lookup"
      [] o = "ssh_write" -> "wr_lookup"
      [] o = "ssh_resize" -> "rs_lookup"
      [] o = "ssh_close_shell" -> "cl_lookup"
      [] o = "ssh_set_primary" -> "sp_set"
      [] o = "ssh_disconnect" -> "disc_remove"
      [] o = "ssh_open_forward" -> "fw_lookup"
      [] o = "ssh_close_forward" -> "fc_remove"

\* a caller invokes command o with the session id s or the channel or
\* forward id c, whichever the command takes
Invoke(t, o, s, c) ==
    /\ pc[t] = "idle"
    /\ op' = [op EXCEPT ![t] = o]
    /\ sid' = [sid EXCEPT ![t] = s]
    /\ cid' = [cid EXCEPT ![t] = c]
    /\ pc' = [pc EXCEPT ![t] = ShellEntry(o)]
    /\ ret' = [ret EXCEPT ![t] = NoRet]
    /\ UNCHANGED <<known_hosts, cnt, modeBefore, modeAfter, srv, chk, trace,
                   regVars, lockVars, readerVars, fwdVars, chanState, prof,
                   nsid, bye, extVars>>

ShellCall(t) ==
    \/ \E o \in ChannelOps, c \in ChannelIds : Invoke(t, o, NoSession, c)
    \/ \E o \in ShellOps \ ChannelOps, s \in SessionIds :
          Invoke(t, o, s, NoChannel)

CloseCall(t) ==
    \E o \in ChannelOps, c \in ChannelIds : Invoke(t, o, NoSession, c)

ForwardCall(t) ==
    \/ \E s \in SessionIds : Invoke(t, "ssh_open_forward", s, NoChannel)
    \/ \E f \in ForwardIds : Invoke(t, "ssh_close_forward", NoSession, f)

\* ------------------------------------------------------------------------
\* SpecShell: one session registered by ssh_connect, no shell yet
\* ------------------------------------------------------------------------
ConnectedIds == {"ssh_1"}

ShellStart ==
    /\ ssh = [s \in ConnectedIds |-> EstablishedSession]
    /\ regLock = NoThread
    /\ sessLock = [s \in SessionIds |-> NoThread]
    /\ blocking = [s \in SessionIds |-> FALSE]
    /\ issued = ConnectedIds
    /\ known_hosts = <<>>
    /\ ThreadInit
    /\ NoShells
    /\ origin = [s \in ConnectedIds |-> ConnectOrigin(s)]

InitShell == ShellStart /\ Quiet

ReaderStep(c) ==
    \/ reader_channel(c)
    \/ reader_session(c)
    \/ reader_lock_session(c)
    \/ reader_lock_channel(c)
    \/ reader_read(c)
    \/ reader_output(c)

ChannelStep(t) ==
    \/ ssh_write_lookup(t)
    \/ ssh_write_lock_session(t)
    \/ ssh_write_lock_channel(t)
    \/ ssh_write_write(t)
    \/ ssh_resize_lookup(t)
    \/ ssh_resize_session(t)
    \/ ssh_resize_lock_session(t)
    \/ ssh_resize_lock_channel(t)
    \/ ssh_resize_request(t)
    \/ ssh_close_shell_lookup(t)
    \/ ssh_close_shell_session(t)
    \/ ssh_close_shell_lock_session(t)
    \/ ssh_close_shell_lock_channel(t)
    \/ ssh_close_shell_close(t)
    \/ ssh_close_shell_remove(t)

NextShell ==
    \/ \E t \in Threads :
          \/ ShellCall(t)
          \/ Done(t)
          \/ ssh_open_shell_lookup(t)
          \/ ssh_open_shell_establish(t)
          \/ ssh_open_shell_insert(t)
          \/ ssh_open_shell_channel(t)
          \/ ssh_open_shell_pty(t)
          \/ ssh_open_shell_start(t)
          \/ ssh_open_shell_register(t)
          \/ ssh_open_shell_spawn(t)
          \/ ChannelStep(t)
          \/ ssh_set_primary(t)
          \/ ssh_disconnect_remove(t)
          \/ ssh_disconnect_bye(t)
    \/ \E c \in ChannelIds :
          \/ ReaderStep(c)
          \/ RemoteEof(c)

SpecShell == InitShell /\ [][NextShell]_vars

\* ------------------------------------------------------------------------
\* SpecClose: one shell is open and its reader is running
\* ------------------------------------------------------------------------
\* one shell is open and its reader runs
CloseStart ==
    /\ ssh = [s \in SessionIds |->
                IF s \in ConnectedIds THEN EstablishedSession
                ELSE SplitSession(EstablishedSession)]
    /\ regLock = NoThread
    /\ sessLock = [s \in SessionIds |-> NoThread]
    /\ blocking = [s \in SessionIds |-> FALSE]
    /\ \E s \in SessionIds \ ConnectedIds :
          /\ ssh_channels = [c \in ChannelIds |-> [session_id |-> s]]
          /\ origin = [x \in SessionIds |->
                         IF x \in ConnectedIds THEN ConnectOrigin(x)
                         ELSE [by |-> "ssh_open_shell", root |-> "ssh_1",
                               check |-> "none"]]
    /\ issued = SessionIds \cup ChannelIds
    /\ known_hosts = <<>>
    /\ ThreadInit
    /\ chanLock = [c \in ChannelIds |-> NoThread]
    /\ chanState = [c \in ChannelIds |-> "open"]
    /\ forwards = <<>>
    /\ fwdEvents = [f \in ForwardIds |-> <<>>]
    /\ child = [f \in ForwardIds |-> "none"]
    /\ bye = [s \in SessionIds |-> FALSE]
    /\ exitEvents = [c \in ChannelIds |-> 0]
    /\ rpc = [c \in ChannelIds |-> "r_top"]
    /\ rsid = [c \in ChannelIds |-> NoSession]

InitClose == CloseStart /\ Quiet

ThreadStepClose(t) ==
    \/ CloseCall(t)
    \/ Done(t)
    \/ ChannelStep(t)

NextClose ==
    \/ \E t \in Threads : ThreadStepClose(t)
    \/ \E c \in ChannelIds :
          \/ ReaderStep(c)
          \/ RemoteEof(c)

\* every caller thread and every reader thread that can run does run
FairClose ==
    /\ \A t \in Threads : WF_vars(ThreadStepClose(t))
    /\ \A c \in ChannelIds : WF_vars(ReaderStep(c))

SpecClose == InitClose /\ [][NextClose]_vars /\ FairClose

\* SpecReader: the same shell, with the reads and events of its reader
\* recorded
InitReader ==
    CloseStart /\ AtRest /\ NothingRead /\ accepted = {} /\ observing = TRUE

NextReader ==
    \/ \E t \in Threads : ThreadStepClose(t)
    \/ \E c \in ChannelIds :
          \/ ReaderStep(c)
          \/ RemoteEof(c)

SpecReader == InitReader /\ [][NextReader]_vars

\* ------------------------------------------------------------------------
\* SpecForward: one session registered, no forward yet
\* ------------------------------------------------------------------------
NextForward ==
    \E t \in Threads :
       \/ ForwardCall(t)
       \/ Done(t)
       \/ ssh_open_forward_lookup(t)
       \/ ssh_open_forward_spawn(t)
       \/ ssh_open_forward_emit(t)
       \/ ssh_open_forward_insert(t)
       \/ ssh_close_forward_remove(t)
       \/ ssh_close_forward_kill(t)
       \/ ssh_close_forward_emit(t)
       \/ \E f \in ForwardIds : ChildExits(f)

SpecForward == InitShell /\ [][NextForward]_vars

\* ------------------------------------------------------------------------
\* ssh_sftp_mkdirs on a remote file system
\* ------------------------------------------------------------------------
\* the characters of the path argument and the longest path tried
PathChars == {"/", "a", "."}
MaxPathLen == 6
PathArgs == UNION {[1..n -> PathChars] : n \in 0..MaxPathLen}

\* path.starts_with('/')
starts_with_slash(p) == Len(p) > 0 /\ p[1] = "/"

RECURSIVE Filter(_)
\* .filter(|p| !p.is_empty() && *p != ".")
Filter(segs) ==
    IF segs = <<>> THEN <<>>
    ELSE IF Head(segs) = <<>> \/ Head(segs) = <<".">>
         THEN Filter(Tail(segs))
         ELSE <<Head(segs)>> \o Filter(Tail(segs))

\* path.split('/').filter(..).collect()
Parts(p) == Filter(SplitOn(p, "/"))

\* let mut cur = if path.starts_with('/') { "/" } else { "" }
StartOf(p) == IF starts_with_slash(p) THEN <<"/">> ELSE <<>>

\* if cur != "/" && !cur.is_empty() { cur.push('/') }; cur.push_str(part)
Push(c, part) ==
    (IF c # <<"/">> /\ c # <<>> THEN Append(c, "/") ELSE c) \o part

RECURSIVE CursFrom(_, _)
\* the values cur takes in the loop over the parts
CursFrom(c, ps) ==
    IF ps = <<>> THEN <<>>
    ELSE <<Push(c, Head(ps))>> \o CursFrom(Push(c, Head(ps)), Tail(ps))

Curs(p) == CursFrom(StartOf(p), Parts(p))

\* The remote side.  A file is named by the sequence of names from the root;
\* a relative path starts at the home directory of the user.
Root == <<>>
Home == <<<<"~">>>>
Parent(f) == SubSeq(f, 1, Len(f) - 1)

\* the kind of file f in the file system fs
Kind(fs, f) == IF f \in DOMAIN fs THEN fs[f] ELSE "none"

RECURSIVE Walk(_, _, _)
\* path resolution on the server, segment by segment from the file at: every
\* directory on the way has to exist; "" and "." stay, ".." goes up
Walk(fs, at, segs) ==
    IF segs = <<>> THEN at
    ELSE IF Kind(fs, at) # "dir" THEN <<<<"/">>>>
    ELSE LET s == Head(segs)
             to == IF s = <<>> \/ s = <<".">> THEN at
                   ELSE IF s = <<".", ".">>
                        THEN (IF at = Root THEN Root ELSE Parent(at))
                        ELSE Append(at, s)
         IN Walk(fs, to, Tail(segs))

\* the file the path string c names in fs (a name that holds a '/' is the
\* file of no path: some directory on the way is missing)
Resolve(fs, c) ==
    Walk(fs, IF starts_with_slash(c) THEN Root ELSE Home, SplitOn(c, "/"))

\* sftp.stat(p): "dir", "file", or "none" for an Err
Stat(fs, c) == Kind(fs, Resolve(fs, c))

\* the files the prefixes of path p name when every directory on the way
\* exists: the part of the remote file system a call on p can touch
RECURSIVE Names(_, _)
Names(at, segs) ==
    IF segs = <<>> THEN {at}
    ELSE LET s == Head(segs)
             to == IF s = <<>> \/ s = <<".">> THEN at
                   ELSE IF s = <<".", ".">>
                        THEN (IF at = Root THEN Root ELSE Parent(at))
                        ELSE Append(at, s)
         IN {at} \cup Names(to, Tail(segs))

Universe(p) ==
    {Root, Home}
       \cup Names(IF starts_with_slash(p) THEN Root ELSE Home, SplitOn(p, "/"))

\* a file system over the files fs names: the root and the home directory
\* are directories and every file lies in a directory
Consistent(fs) ==
    /\ Kind(fs, Root) = "dir" /\ Kind(fs, Home) = "dir"
    /\ \A f \in DOMAIN fs : f # Root => Kind(fs, Parent(f)) = "dir"

FileSystems(p) ==
    {fs \in UNION {[D -> {"dir", "file"}] : D \in SUBSET Universe(p)} :
        Consistent(fs)}

\* fs with the directory f added
WithDir(fs, f) ==
    [g \in DOMAIN fs \cup {f} |-> IF g = f THEN "dir" ELSE fs[g]]

\* sftp.mkdir(p, 0o755) can succeed: the name is free in an existing directory
CanMkdir(fs, c) ==
    LET f == Resolve(fs, c)
    IN /\ f # <<<<"/">>>>
       /\ Kind(fs, f) = "none"
       /\ Kind(fs, Parent(f)) = "dir"

\* a variant that gives up when mkdir fails
NoRecheck(k) == FALSE

\* after a failed mkdir: if let Ok(st) = sftp.stat(p) { if st.is_dir() ..
Recheck(k) == k = "dir"

\* how often the call is repeated on one path
MaxCalls == 2

\* what sftp.mkdir(p, 0o755) returns for the path string c in fs
MkdirResults(fs, c) ==
    IF CanMkdir(fs, c) THEN {"Ok", "PermissionDenied"}
    ELSE IF Resolve(fs, c) = <<<<"/">>>>
              \/ Kind(fs, Parent(Resolve(fs, c))) # "dir"
         THEN {"NoSuchFile"}
         ELSE {"Failure"}

\* a call on the path starts: sftp() has succeeded; parts and cur
ssh_sftp_mkdirs_split ==
    /\ mkPc = "idle"
    /\ Len(mkRets) < MaxCalls
    /\ parts' = Parts(path)
    /\ cur' = StartOf(path)
    /\ rfs0' = rfs
    /\ made' = {}
    /\ mkPc' = "for"
    /\ UNCHANGED <<path, rfs, mkErr, mkRets,
                   mkRest>>

\* for part in parts { .. cur.push_str(part) .. }; Ok(()) after the last
ssh_sftp_mkdirs_for ==
    /\ mkPc = "for"
    /\ IF parts = <<>>
       THEN /\ mkRets' = Append(mkRets, Ok("unit"))
            /\ mkPc' = "idle"
            /\ UNCHANGED <<parts, cur>>
       ELSE /\ cur' = Push(cur, Head(parts))
            /\ parts' = Tail(parts)
            /\ mkPc' = "stat"
            /\ UNCHANGED mkRets
    /\ UNCHANGED <<path, rfs, rfs0, made, mkErr,
                   mkRest>>

\* if let Ok(st) = sftp.stat(p) { if st.is_dir() { continue } }
ssh_sftp_mkdirs_stat ==
    /\ mkPc = "stat"
    /\ mkPc' = IF Stat(rfs, cur) = "dir" THEN "for" ELSE "mkdir"
    /\ UNCHANGED <<path, rfs, parts, cur, rfs0, made, mkErr, mkRets,
                   mkRest>>

\* if let Err(e) = sftp.mkdir(p, 0o755)
ssh_sftp_mkdirs_mkdir ==
    /\ mkPc = "mkdir"
    /\ \E r \in MkdirResults(rfs, cur) :
          IF r = "Ok"
          THEN /\ rfs' = WithDir(rfs, Resolve(rfs, cur))
               /\ made' = made \cup {Resolve(rfs, cur)}
               /\ mkPc' = "for"
               /\ UNCHANGED mkErr
          ELSE /\ mkErr' = r
               /\ mkPc' = "restat"
               /\ UNCHANGED <<rfs, made>>
    /\ UNCHANGED <<path, parts, cur, rfs0, mkRets,
                   mkRest>>

\* the second stat after a failed mkdir; return Err(e.to_string())
ssh_sftp_mkdirs_restat ==
    /\ mkPc = "restat"
    /\ IF Recheck(Stat(rfs, cur))
       THEN /\ mkPc' = "for"
            /\ UNCHANGED mkRets
       ELSE /\ mkRets' = Append(mkRets, Err(mkErr))
            /\ mkPc' = "idle"
    /\ UNCHANGED <<path, rfs, parts, cur, rfs0, made, mkErr,
                   mkRest>>

\* another client of the server makes a directory
OtherMkdir ==
    /\ mkPc # "off"
    /\ \E f \in Universe(path) :
          /\ Kind(rfs, f) = "none"
          /\ Kind(rfs, Parent(f)) = "dir"
          /\ rfs' = WithDir(rfs, f)
    /\ UNCHANGED <<path, mkPc, parts, cur, rfs0, made, mkErr, mkRets,
                   mkRest>>

\* SpecMkdirs: a path and a remote file system, the call made twice
InitMkdirs ==
    /\ ShellStart
    /\ NoUpload
    /\ NoListing
    /\ NoCrypto
    /\ NoObserver
    /\ path \in PathArgs
    /\ rfs \in FileSystems(path)
    /\ mkPc = "idle"
    /\ parts = <<>>
    /\ cur = <<>>
    /\ rfs0 = rfs
    /\ made = {}
    /\ mkErr = "none"
    /\ mkRets = <<>>

NextMkdirs ==
    \/ ssh_sftp_mkdirs_split
    \/ ssh_sftp_mkdirs_for
    \/ ssh_sftp_mkdirs_stat
    \/ ssh_sftp_mkdirs_mkdir
    \/ ssh_sftp_mkdirs_restat
    \/ OtherMkdir

SpecMkdirs == InitMkdirs /\ [][NextMkdirs]_vars

\* ------------------------------------------------------------------------
\* The upload loop of ssh_sftp_write and ssh_deploy_helper
\* ------------------------------------------------------------------------
\* the chunk size of both loops
CHUNK == 8192
\* the longest upload tried, in chunks
MaxUploadChunks == 3
UploadSizes == 0..(MaxUploadChunks * CHUNK)
UploadOps == {"ssh_sftp_write", "ssh_deploy_helper"}

\* a variant that does not clamp the end of the last chunk
ChunkEndUnclamped(w, tot) == w + CHUNK

\* let end = usize::min(written + 8192, total)
ChunkEnd(w, tot) == IF w + CHUNK < tot THEN w + CHUNK ELSE tot

\* let mut file = sftp.create(remote_path) with total = bytes.len() and
\* written = 0
upload_create ==
    /\ upPc = "create"
    /\ \/ /\ upPc' = "while"
          /\ UNCHANGED upRet
       \/ /\ upPc' = "done"
          /\ upRet' = Err("create")
    /\ UNCHANGED <<upOp, total, written, progress, upRest>>

\* while written < total { file.write_all(chunk)?; written = end;
\* app.emit(SSH_UPLOAD_PROGRESS, {path, written, total}) }
upload_chunk ==
    /\ upPc = "while"
    /\ written < total
    /\ \/ /\ written' = ChunkEnd(written, total)
          /\ progress' = Append(progress,
                                [written |-> written', total |-> total])
          /\ UNCHANGED <<upPc, upRet>>
       \/ /\ upPc' = "done"
          /\ upRet' = Err("Write failed")
          /\ UNCHANGED <<written, progress>>
    /\ UNCHANGED <<upOp, total, upRest>>

\* the loop ends: s.sess.set_blocking(false); Ok(())
upload_end ==
    /\ upPc = "while"
    /\ ~(written < total)
    /\ upPc' = "done"
    /\ upRet' = Ok("unit")
    /\ UNCHANGED <<upOp, total, written, progress, upRest>>

\* SpecUpload: an upload of any size up to MaxUploadChunks chunks
InitUpload ==
    /\ ShellStart
    /\ NoMkdirs
    /\ NoListing
    /\ NoCrypto
    /\ NoObserver
    /\ upOp \in UploadOps
    /\ total \in UploadSizes
    /\ written = 0
    /\ progress = <<>>
    /\ upPc = "create"
    /\ upRet = NoRet

NextUpload == upload_create \/ upload_chunk \/ upload_end

SpecUpload == InitUpload /\ [][NextUpload]_vars

\* ------------------------------------------------------------------------
\* The result of ssh_sftp_list
\* ------------------------------------------------------------------------
\* file names of a remote directory: sequences of bytes, "xFF" a byte that
\* is part of no UTF-8 text
FileNames ==
    {<<".">>, <<".", ".">>, <<"a">>, <<"A">>, <<"B">>, <<"a", "b">>,
     <<"xFF">>}
\* the most entries a directory holds
MaxEntries == 3

\* the listings of a directory: entries with distinct names, in any order
Listings ==
    {d \in UNION {[1..n -> [name : FileNames, is_dir : BOOLEAN]] :
                     n \in 0..MaxEntries} :
        \A i, j \in 1..Len(d) : i # j => d[i].name # d[j].name}

\* ssh2's Sftp::readdir leaves out the names "." and ".." and joins every
\* other name to the directory path
ReaddirKeeps(e) == e.name # <<".">> /\ e.name # <<".", ".">>

\* Path::file_name(): None for a path that ends in "..", the last normal
\* component otherwise
file_name(n) == IF n = <<".", ".">> THEN <<>> ELSE n

\* OsStr::to_str(): None unless the name is valid UTF-8
to_str_ok(n) == \A i \in 1..Len(n) : n[i] # "xFF"

\* the entry is pushed to out
Listed(e) ==
    /\ file_name(e.name) # <<>>
    /\ to_str_ok(e.name)
    /\ e.name # <<".">>

RECURSIVE SelectSeqBy(_, _)
SelectSeqBy(q, which) ==
    IF q = <<>> THEN <<>>
    ELSE (IF which[1] THEN <<Head(q)>> ELSE <<>>)
            \o SelectSeqBy(Tail(q), Tail(which))

\* the order of bytes
ByteOrder == <<".">> \o DecDigits \o UpperCase \o LowerCase
Byte(c) == CHOOSE i \in 1..Len(ByteOrder) : ByteOrder[i] = c

RECURSIVE StrLess(_, _)
\* str::cmp(a, b) = Less
StrLess(a, b) ==
    IF b = <<>> THEN FALSE
    ELSE IF a = <<>> THEN TRUE
    ELSE IF Head(a) # Head(b) THEN Byte(Head(a)) < Byte(Head(b))
    ELSE StrLess(Tail(a), Tail(b))

\* b.is_dir.cmp(&a.is_dir).then(a.name.to_lowercase().cmp(
\* &b.name.to_lowercase())) = Less
EntryLess(a, b) ==
    \/ a.is_dir /\ ~b.is_dir
    \/ /\ a.is_dir = b.is_dir
       /\ StrLess(to_ascii_lowercase(a.name), to_ascii_lowercase(b.name))

\* x put into the sorted q behind every element that is not greater
RECURSIVE InsertSorted(_, _)
InsertSorted(q, x) ==
    IF q = <<>> THEN <<x>>
    ELSE IF EntryLess(x, Head(q)) THEN <<x>> \o q
    ELSE <<Head(q)>> \o InsertSorted(Tail(q), x)

RECURSIVE SortFrom(_, _)
SortFrom(done, q) ==
    IF q = <<>> THEN done ELSE SortFrom(InsertSorted(done, Head(q)), Tail(q))

\* out.sort_by(..): a stable sort
sort_by(q) == SortFrom(<<>>, q)

\* sftp.readdir(path)
ssh_sftp_list_entries ==
    /\ lsPc = "readdir"
    /\ lsEntries' =
          SelectSeqBy(lsDir, [i \in 1..Len(lsDir) |-> ReaddirKeeps(lsDir[i])])
    /\ lsPc' = "for"
    /\ UNCHANGED <<lsDir, lsOut, lsRest>>

\* for (p, st) in entries { .. out.push(SftpEntry { .. }) }
ssh_sftp_list_push ==
    /\ lsPc = "for"
    /\ IF lsEntries = <<>>
       THEN /\ lsPc' = "sort"
            /\ UNCHANGED <<lsEntries, lsOut>>
       ELSE /\ lsEntries' = Tail(lsEntries)
            /\ lsOut' = IF Listed(Head(lsEntries))
                        THEN Append(lsOut, Head(lsEntries))
                        ELSE lsOut
            /\ UNCHANGED lsPc
    /\ UNCHANGED <<lsDir, lsRest>>

\* out.sort_by(..); Ok(out)
ssh_sftp_list_sort ==
    /\ lsPc = "sort"
    /\ lsOut' = sort_by(lsOut)
    /\ lsPc' = "done"
    /\ UNCHANGED <<lsDir, lsEntries, lsRest>>

\* SpecList: a listing of any remote directory of up to MaxEntries entries
InitList ==
    /\ ShellStart
    /\ NoMkdirs
    /\ NoUpload
    /\ NoCrypto
    /\ NoObserver
    /\ lsDir \in Listings
    /\ lsEntries = <<>>
    /\ lsOut = <<>>
    /\ lsPc = "readdir"

NextList == ssh_sftp_list_entries \/ ssh_sftp_list_push \/ ssh_sftp_list_sort

SpecList == InitList /\ [][NextList]_vars

\* ------------------------------------------------------------------------
\* encryption.rs: the EncryptionManager
\* ------------------------------------------------------------------------
\* Option<T>: None is NoRet
Some(v) == [kind |-> "Some", val |-> v]

\* the passwords a user may type, the salts and nonces OsRng may produce
Passwords == {"p1", "p2"}
Salts == {"s1", "s2"}
Nonces == {"n1", "n2"}
\* the strings handed to encrypt
Strings == {"", "sensitive data"}
\* the text save_profiles_encrypted encrypts
ProfilesJson == "profiles"

\* argon2.hash_password(password, salt): the PHC hash; it names its salt, and
\* its first 32 bytes are the key
hash_password(p, s) == [pw |-> p, salt |-> s]

\* argon2.verify_password(password, parsed_hash)
verify_password(p, h) == hash_password(p, h.salt) = h

\* B64.encode, B64.decode
B64encode(x) == [b64 |-> x]
B64decode(x) == IF "b64" \in DOMAIN x THEN Ok(x.b64) ELSE Err("DecryptionFailed")

\* Aes256Gcm: cipher.encrypt(nonce, bytes), cipher.decrypt(nonce, ciphertext);
\* the tag lets decrypt succeed under the key and nonce of encrypt only
AesEncrypt(k, n, bytes) == [key |-> k, nonce |-> n, bytes |-> bytes]
AesDecrypt(k, n, ct) ==
    IF ct.key = k /\ ct.nonce = n THEN Ok(ct.bytes)
    ELSE Err("DecryptionFailed")

\* encrypt: the key and the salt must be in memory
encrypt(mk, sl, n, str) ==
    IF mk = NoRet \/ sl = NoRet THEN Err("MasterKeyNotSet")
    ELSE Ok([nonce |-> B64encode(n),
             ciphertext |-> B64encode(AesEncrypt(mk.val, n, str)),
             salt |-> sl.val])

\* the key decrypt hands to the cipher: the key in memory
AnyKey(mk) == Some(hash_password("p1", "s1"))
CipherKey(mk) == mk

\* decrypt: the key must be in memory; base64, the cipher, String::from_utf8
decrypt(mk, e) ==
    IF mk = NoRet THEN Err("MasterKeyNotSet")
    ELSE LET nonce_bytes == B64decode(e.nonce)
             ciphertext == B64decode(e.ciphertext)
         IN  IF nonce_bytes.kind = "Err" THEN nonce_bytes
             ELSE IF ciphertext.kind = "Err" THEN ciphertext
             ELSE AesDecrypt(CipherKey(mk).val, nonce_bytes.val,
                             ciphertext.val)

\* the values handed to encrypt_json, each with its type T
JsonValues ==
    { [ty |-> "String", val |-> "secret"],
      [ty |-> "TestData", val |-> "{secret123,api_key_xyz}"],
      [ty |-> "f64", val |-> "1.5"],
      [ty |-> "f64", val |-> "NaN"],
      [ty |-> "Option<Option<u8>>", val |-> "None"],
      [ty |-> "Option<Option<u8>>", val |-> "Some(None)"],
      [ty |-> "Option<Option<u8>>", val |-> "Some(Some(1))"] }

\* serde_json::to_string: a float that is not finite and every None are
\* written as null; val stands for the text of any other value
to_string(v) ==
    IF v.ty = "f64" /\ v.val = "NaN" THEN "null"
    ELSE IF v.ty = "Option<Option<u8>>" /\ v.val \in {"None", "Some(None)"}
         THEN "null"
    ELSE v.val

\* serde_json::from_str::<T>: null is None for an Option and an error for
\* any other T
from_str(ty, json) ==
    IF json = "null"
    THEN IF ty = "Option<Option<u8>>" THEN Ok([ty |-> ty, val |-> "None"])
         ELSE Err("DecryptionFailed")
    ELSE Ok([ty |-> ty, val |-> json])

\* decrypt_json::<T>
decrypt_json(mk, ty, e) ==
    LET json == decrypt(mk, e)
    IN  IF json.kind = "Err" THEN json ELSE from_str(ty, json.val)

\* the decryption test of verify_master_key on profiles.json.enc, with the
\* key k in memory
DecryptionTest(k, file) == decrypt(Some(k), file.val).kind = "Ok"

\* verify_master_key: the result, and the key and salt it leaves in memory
verify_master_key(q, sl, mk, fb, file) ==
    IF sl = NoRet /\ fb # NoRet
    THEN \* the fallback file: the password is compared with the stored hash
         IF verify_password(q, fb.val.hash)
         THEN LET k == hash_password(q, fb.val.salt)
              IN  IF file # NoRet /\ ~DecryptionTest(k, file)
                  THEN [ret |-> Ok(FALSE), master_key |-> NoRet,
                        salt |-> NoRet]
                  ELSE [ret |-> Ok(TRUE), master_key |-> Some(k),
                        salt |-> Some(fb.val.salt)]
         ELSE [ret |-> Ok(FALSE), master_key |-> mk, salt |-> sl]
    ELSE IF sl = NoRet
    THEN [ret |-> Err("MasterKeyNotSet"), master_key |-> mk, salt |-> sl]
    ELSE \* the salt in memory: the key is derived and tried on the file
         LET k == hash_password(q, sl.val)
             can_decrypt == IF file # NoRet THEN DecryptionTest(k, file)
                            ELSE TRUE
         IN  IF ~can_decrypt
             THEN [ret |-> Ok(FALSE), master_key |-> NoRet, salt |-> sl]
             ELSE [ret |-> Ok(TRUE), master_key |-> Some(k), salt |-> sl]

\* set_master_key(password): the salt in memory is reused, else generated;
\* the key and salt go to memory and the hash and salt to the fallback file
set_master_key_call ==
    /\ encPc = "idle"
    /\ \E p \in Passwords, fresh \in Salts :
        LET s == IF salt # NoRet THEN salt.val ELSE fresh
            password_hash == hash_password(p, s)
        IN  /\ master_key' = Some(password_hash)
            /\ salt' = Some(s)
            /\ fallback' = Some([hash |-> password_hash, salt |-> s])
            /\ setPw' = p
    /\ verQ' = "none"
    /\ verRet' = NoRet
    /\ UNCHANGED <<encFile, data, value, sealed, opened, encPc, encRest>>

\* clear_master_key()
clear_master_key_call ==
    /\ encPc = "idle"
    /\ master_key' = NoRet
    /\ salt' = NoRet
    /\ UNCHANGED <<fallback, encFile, setPw, verQ, verRet, data, value,
                   sealed, opened, encPc, encRest>>

\* verify_master_key(password)
verify_master_key_call ==
    /\ encPc = "idle"
    /\ \E q \in Passwords :
        LET r == verify_master_key(q, salt, master_key, fallback, encFile)
        IN  /\ verQ' = q
            /\ verRet' = r.ret
            /\ master_key' = r.master_key
            /\ salt' = r.salt
    /\ UNCHANGED <<fallback, encFile, setPw, data, value, sealed, opened,
                   encPc, encRest>>

\* save_profiles_encrypted: with a master key, the profiles are encrypted
\* and written to profiles.json.enc
save_profiles_encrypted ==
    /\ encPc = "idle"
    /\ master_key # NoRet
    /\ LET encrypted == encrypt(master_key, salt, "n1", ProfilesJson)
       IN  /\ encrypted.kind = "Ok"
           /\ encFile' = Some(encrypted.val)
    /\ UNCHANGED <<master_key, salt, fallback, setPw, verQ, verRet, data,
                   value, sealed, opened, encPc, encRest>>

\* encrypt(data)
encrypt_call ==
    /\ encPc = "idle"
    /\ \E str \in Strings, n \in Nonces :
        /\ data' = str
        /\ sealed' = encrypt(master_key, salt, n, str)
    /\ value' = NoRet
    /\ opened' = NoRet
    /\ encPc' = IF sealed'.kind = "Ok" THEN "sealed" ELSE "idle"
    /\ UNCHANGED <<master_key, salt, fallback, encFile, setPw, verQ, verRet,
                   encRest>>

\* encrypt_json(data)
encrypt_json_call ==
    /\ encPc = "idle"
    /\ \E v \in JsonValues, n \in Nonces :
        /\ value' = v
        /\ data' = to_string(v)
        /\ sealed' = encrypt(master_key, salt, n, to_string(v))
    /\ opened' = NoRet
    /\ encPc' = IF sealed'.kind = "Ok" THEN "sealed" ELSE "idle"
    /\ UNCHANGED <<master_key, salt, fallback, encFile, setPw, verQ, verRet,
                   encRest>>

\* decrypt(&encrypted) of what encrypt returned
decrypt_call ==
    /\ encPc = "sealed"
    /\ value = NoRet
    /\ opened' = decrypt(master_key, sealed.val)
    /\ encPc' = "idle"
    /\ UNCHANGED <<master_key, salt, fallback, encFile, setPw, verQ, verRet,
                   data, value, sealed, encRest>>

\* decrypt_json::<T>(&encrypted) of what encrypt_json returned
decrypt_json_call ==
    /\ encPc = "sealed"
    /\ value # NoRet
    /\ opened' = decrypt_json(master_key, value.ty, sealed.val)
    /\ encPc' = "idle"
    /\ UNCHANGED <<master_key, salt, fallback, encFile, setPw, verQ, verRet,
                   data, value, sealed, encRest>>

\* SpecCrypto: EncryptionManager::new() with no fallback file and no
\* encrypted profiles
InitCrypto ==
    /\ ShellStart
    /\ NoMkdirs
    /\ NoUpload
    /\ NoListing
    /\ NoObserver
    /\ NoCrypto

NextCrypto ==
    \/ set_master_key_call
    \/ clear_master_key_call
    \/ verify_master_key_call
    \/ save_profiles_encrypted
    \/ encrypt_call
    \/ encrypt_json_call
    \/ decrypt_call
    \/ decrypt_json_call

SpecCrypto == InitCrypto /\ [][NextCrypto]_vars

\* ------------------------------------------------------------------------
\* Socket-level program points
\* ------------------------------------------------------------------------
\* program points whose next step is an operation on the session's socket:
\* a mode toggle, SFTP handle creation or transfer, exec, disconnect
SocketPcs ==
    {"exec_set_blocking", "exec_channel", "exec_exec", "exec_stdout",
     "exec_stderr", "exec_wait_close",
     "home_set_blocking", "home_sftp", "home_realpath",
     "list_set_blocking", "list_sftp", "list_readdir",
     "read_set_blocking", "read_sftp", "read_open", "read_file",
     "mkdirs_set_blocking", "mkdirs_sftp", "mkdirs_part",
     "write_set_blocking", "write_sftp", "write_create", "write_chunk",
     "deploy_set_blocking", "deploy_sftp", "deploy_create", "deploy_chunk",
     "dl_set_blocking", "dl_sftp", "dl_open", "dl_read",
     "dd_set_blocking", "dd_sftp", "dd_walk", "disc_bye"}

InSocketOp(t) ==
    \/ pc[t] \in SocketPcs
    \/ pc[t] \in {"dl_restore", "dd_restore"} /\ sid[t] \in DOMAIN ssh

\* the socket I/O of ssh_exec: open channel, exec, both reads, wait_close
ExecIOPcs ==
    {"exec_channel", "exec_exec", "exec_stdout", "exec_stderr",
     "exec_wait_close"}

\* ------------------------------------------------------------------------
\* Claims
\* ------------------------------------------------------------------------

\* C1: every command that switches a session to blocking mode returns, on
\* every return path, with the session's blocking mode equal to its value
\* when the call started.
C1_ModeRestoredOnReturn ==
    \A t \in Threads :
       pc[t] = "done" /\ op[t] \in BlockingOps
          => modeAfter[t] = modeBefore[t]

\* C2: a registered session whose operation lock is held by no thread is in
\* its default (non-blocking) mode.
C2_UnlockedSessionNonBlocking ==
    \A s \in DOMAIN ssh : sessLock[s] = NoThread => ~blocking[s]

\* C3: a thread that is performing a socket-level operation on a session
\* holds that session's operation lock, so no two threads are inside socket
\* operations of one session at the same time.
C3_SocketOpsUnderSessionLock ==
    /\ \A t \in Threads : InSocketOp(t) => sessLock[sid[t]] = t
    /\ \A t1, t2 \in Threads :
          t1 # t2 /\ InSocketOp(t1) /\ InSocketOp(t2) => sid[t1] # sid[t2]

\* C4: the socket I/O sections of two ssh_exec calls on the same session
\* never overlap: one runs entirely before or entirely after the other.
C4_ExecCallsSerialized ==
    \A t1, t2 \in Threads :
       t1 # t2 /\ pc[t1] \in ExecIOPcs /\ pc[t2] \in ExecIOPcs
          => sid[t1] # sid[t2]

\* one ssh_exec is reading stderr while a second ssh_exec on the same
\* session has been called and waits
C4_Witness ==
    \E t1, t2 \in Threads :
       /\ t1 # t2
       /\ op[t1] = "ssh_exec" /\ op[t2] = "ssh_exec"
       /\ sid[t1] = sid[t2]
       /\ pc[t1] = "exec_stderr"
       /\ pc[t2] = "exec_lookup"

\* C5: no thread holds the registry lock while it performs socket I/O.
C5_NoRegistryLockDuringSocketIO ==
    \A t \in Threads : InSocketOp(t) => regLock # t

\* ------------------------------------------------------------------------
\* Claims about ssh_connect (checked under SpecConnect)
\* ------------------------------------------------------------------------
Last(q) == q[Len(q)]
Occurs(e, q) == \E i \in 1..Len(q) : q[i] = e

\* the ssh_connect call of t is past its match on the check result
Decided(t) ==
    op[t] = "ssh_connect" /\ pc[t] \in {"connect_auth", "connect_insert", "done"}

AutoTrust(t) == prof[t].trust_host = "Some_true"

\* the host as the connect request names it after normalisation: DNS names
\* in lower case, IP literals as given
NormalHost(t) ==
    IF is_ip_address(prof[t].host) THEN prof[t].host
    ELSE to_ascii_lowercase(prof[t].host)

\* the step in which t leaves the match on the check result
DecideStep(t) == pc[t] = "connect_decide" /\ pc'[t] # "connect_decide"

\* C6: a Mismatch result makes ssh_connect fail whatever the auto-trust
\* flag: no authentication, no session in the registry, known-hosts file
\* untouched.
C6_MismatchIsFatal ==
    /\ [](\A t \in Threads :
            Decided(t) /\ chk[t] = "Mismatch"
               => /\ pc[t] = "done"
                  /\ ret[t] = Err("known_hosts mismatch")
                  /\ ~Occurs("auth", trace[t])
                  /\ sid[t] = NoSession)
    /\ [][\A t \in Threads :
             DecideStep(t) /\ chk[t] = "Mismatch"
                => known_hosts' = known_hosts /\ ssh' = ssh]_vars

\* a connect with auto-trust set has failed on a mismatch
C6_Witness ==
    \E t \in Threads :
       /\ pc[t] = "done" /\ op[t] = "ssh_connect"
       /\ chk[t] = "Mismatch" /\ AutoTrust(t)
       /\ ret[t].kind = "Err"

\* C7: NotFound or Failure without auto-trust returns the confirmation
\* payload (normalised host, port, key type, SHA-256 fingerprint), never a
\* session id; no authentication, registry unchanged.
C7_PromptWithoutAutoTrust ==
    /\ [](\A t \in Threads :
            Decided(t) /\ chk[t] \in {"NotFound", "Failure"} /\ ~AutoTrust(t)
               => /\ pc[t] = "done"
                  /\ ret[t].kind = "Err"
                  /\ ret[t].msg = "KNOWN_HOSTS_PROMPT"
                  /\ ret[t].host = NormalHost(t)
                  /\ ret[t].port = prof[t].port
                  /\ ret[t].keyType = KeyTypeForPrompt(srv[t].type)
                  /\ ret[t].fingerprintSHA256 = FingerprintSHA256(srv[t].key)
                  /\ ~Occurs("auth", trace[t])
                  /\ sid[t] = NoSession)
    /\ [][\A t \in Threads :
             DecideStep(t) /\ chk[t] \in {"NotFound", "Failure"}
                /\ ~AutoTrust(t)
                => ssh' = ssh]_vars

\* the payload for an unknown key of host "Fa" on port 2222, host lowered
C7_Witness ==
    \E t \in Threads :
       /\ pc[t] = "done" /\ op[t] = "ssh_connect"
       /\ chk[t] = "NotFound" /\ prof[t].trust_host = "Some_false"
       /\ prof[t].host = <<"F", "a">> /\ prof[t].port = 2222
       /\ ret[t].msg = "KNOWN_HOSTS_PROMPT"
       /\ ret[t].host = <<"f", "a">>

\* C8: the known-hosts file changes only in an ssh_connect whose check
\* result is NotFound or Failure and whose auto-trust flag is true.
C8_StoreChangesOnlyOnTrustedUnknown ==
    [][known_hosts' # known_hosts
          => \E t \in Threads :
                /\ DecideStep(t)
                /\ chk[t] \in {"NotFound", "Failure"}
                /\ AutoTrust(t)]_vars

\* a Match with auto-trust set has gone on to authentication over a file
\* that an earlier trusted connect wrote
C8_Witness ==
    \E t \in Threads :
       /\ pc[t] = "connect_auth" /\ chk[t] = "Match" /\ AutoTrust(t)
       /\ Len(known_hosts) = 1

TrustedChecks == {"Match", "NotFound trusted", "Failure trusted"}

\* C11: every registered session, made by ssh_connect or as a split by
\* ssh_open_shell, had its server host key checked against the known-hosts
\* store with the result Match or an auto-trusted NotFound/Failure.
C11_EverySessionHostKeyChecked ==
    \A s \in DOMAIN ssh : origin[s].check \in TrustedChecks

\* ------------------------------------------------------------------------
\* Claims about authentication and session mode (checked under SpecConnect)
\* ------------------------------------------------------------------------
\* the step in which the ssh_connect call of t returns from its
\* authentication phase
AuthReturn(t) == pc[t] = "connect_auth" /\ pc'[t] = "done"

\* the registry gains a session only from a call that offered a credential
\* and was authenticated, and a failing call inserts nothing
OnlyAuthenticatedInserted(t) ==
    /\ ssh' # ssh
          => /\ pc[t] = "connect_insert"
             /\ Occurs("auth", trace[t])
             /\ prof[t].auth \in AuthMethods
             /\ ret'[t].kind = "Ok"
             /\ DOMAIN ssh' = DOMAIN ssh \cup {ret'[t].val}
    /\ (pc'[t] = "done" /\ ret'[t].kind = "Err") => ssh' = ssh

\* a call whose auth call left the session unauthenticated returns
\* "authentication failed"
UnauthenticatedFails(t) ==
    (AuthReturn(t) /\ "cause" \in DOMAIN ret'[t]
       /\ ret'[t].cause = "unauthenticated")
       => ret'[t].msg = "authentication failed"

Connected(t) == op[t] = "ssh_connect" /\ pc[t] = "done" /\ ret[t].kind = "Ok"

Quiescent == \A t \in Threads : pc[t] \in {"idle", "done"}

\* the registered sessions of the connection group whose first session is g
GroupOf(g) == {s \in DOMAIN ssh : origin[s].root = g}

\* C14: after any sequence of ssh_connect, ssh_open_shell, ssh_set_primary
\* and ssh_disconnect calls, every connection group that still has a
\* registered session has exactly one primary session.
C14_OnePrimaryPerGroup ==
    Quiescent =>
       \A s \in DOMAIN ssh :
          Cardinality({x \in GroupOf(origin[s].root) : ssh[x].is_primary}) = 1

\* the program points of ssh_open_shell
OpenShellPcs ==
    {"sh_lookup", "sh_establish", "sh_insert", "sh_channel", "sh_pty",
     "sh_start", "sh_register", "sh_spawn"}

\* C15: a successful ssh_open_shell on session S adds exactly one session,
\* with a fresh identifier, the host, port, user and auth of S and the
\* primary flag false, and exactly one channel, owned by the new session;
\* no step of the call changes S or any other registered session.
C15_SplitAddsOneSessionOneChannel ==
    [][\A t \in Threads :
          (pc[t] \in OpenShellPcs /\ pc'[t] # pc[t]) =>
             /\ \A s \in DOMAIN ssh : s \in DOMAIN ssh' /\ ssh'[s] = ssh[s]
             /\ \A c \in DOMAIN ssh_channels :
                   c \in DOMAIN ssh_channels' /\ ssh_channels'[c] = ssh_channels[c]
             /\ IF pc[t] = "sh_insert"
                THEN /\ DOMAIN ssh' = DOMAIN ssh \cup {nsid'[t]}
                     /\ nsid'[t] \notin DOMAIN ssh
                     /\ nsid'[t] \notin DOMAIN origin
                     /\ ssh'[nsid'[t]].host = prof[t].host
                     /\ ssh'[nsid'[t]].port = prof[t].port
                     /\ ssh'[nsid'[t]].user = prof[t].user
                     /\ ssh'[nsid'[t]].auth = prof[t].auth
                     /\ ssh'[nsid'[t]].is_primary = FALSE
                     /\ sid[t] \in DOMAIN ssh =>
                           /\ ssh[sid[t]].host = prof[t].host
                           /\ ssh[sid[t]].port = prof[t].port
                           /\ ssh[sid[t]].user = prof[t].user
                           /\ ssh[sid[t]].auth = prof[t].auth
                ELSE DOMAIN ssh' = DOMAIN ssh
             /\ IF pc[t] = "sh_register"
                THEN /\ DOMAIN ssh_channels' = DOMAIN ssh_channels \cup {cid'[t]}
                     /\ cid'[t] \notin DOMAIN ssh_channels
                     /\ chanState[cid'[t]] = "none"
                     /\ ssh_channels'[cid'[t]].session_id = nsid[t]
                ELSE DOMAIN ssh_channels' = DOMAIN ssh_channels
             /\ (pc'[t] = "done" /\ ret'[t].kind = "Ok") =>
                   /\ pc[t] = "sh_spawn"
                   /\ ret'[t].val = [channelId |-> cid[t], sessionId |-> nsid[t]]]_vars

\* an ssh_open_shell has returned: its split and its channel are
\* registered next to the unchanged session it was called on
C15_Witness ==
    \E t \in Threads :
       /\ op[t] = "ssh_open_shell" /\ pc[t] = "done" /\ ret[t].kind = "Ok"
       /\ sid[t] \in DOMAIN ssh /\ ssh[sid[t]] = EstablishedSession
       /\ ret[t].val.sessionId \in DOMAIN ssh \ {sid[t]}
       /\ ~ssh[ret[t].val.sessionId].is_primary
       /\ ret[t].val.channelId \in DOMAIN ssh_channels
       /\ ssh_channels[ret[t].val.channelId].session_id = ret[t].val.sessionId

\* the program points at which a thread requests a session lock
SessionLockRequests ==
    {"wr_lock_sess", "rs_lock_sess", "cl_lock_sess", "exec_lock", "list_lock",
     "read_lock", "mkdirs_lock", "write_lock", "deploy_lock", "dl_lock",
     "dd_lock"}

\* C16: in the background reader, ssh_write, ssh_resize and ssh_close_shell
\* a channel lock is held only by a thread that holds the lock of the
\* channel's owning session, and no thread requests a session lock while
\* it holds a channel lock.
C16_SessionLockThenChannelLock ==
    /\ \A c \in ChannelIds :
          chanLock[c] # NoThread =>
             \E s \in SessionIds :
                /\ sessLock[s] = chanLock[c]
                /\ c \in DOMAIN ssh_channels => ssh_channels[c].session_id = s
    /\ \A t \in Threads :
          pc[t] \in SessionLockRequests => \A c \in ChannelIds : chanLock[c] # t
    /\ \A r \in ChannelIds :
          rpc[r] = "r_lock_sess" => \A c \in ChannelIds : chanLock[c] # r

\* a caller holds the session lock and the channel lock of a shell while
\* the reader of that shell waits for the session lock
C16_Witness ==
    \E t \in Threads, c \in ChannelIds :
       /\ chanLock[c] = t
       /\ c \in DOMAIN ssh_channels
       /\ sessLock[ssh_channels[c].session_id] = t
       /\ rpc[c] = "r_lock_sess"

\* C17: once the reader of a channel has emitted the exit notification and
\* no command is in progress, the channel is no longer in the channel
\* registry (so that ssh_write and ssh_resize on it fail with "channel not
\* found").
C17_ExitedChannelIsDestroyed ==
    Quiescent =>
       \A c \in ChannelIds : exitEvents[c] > 0 => c \notin DOMAIN ssh_channels

\* C19: a WouldBlock result of the library is never surfaced: no call of
\* ssh_open_shell, ssh_write or ssh_resize returns an error whose cause is
\* that a channel operation returned WouldBlock, however many consecutive
\* WouldBlock results occur.
C19_WouldBlockNeverSurfaced ==
    \A t \in Threads :
       (/\ op[t] \in {"ssh_open_shell", "ssh_write", "ssh_resize"}
        /\ pc[t] = "done"
        /\ ret[t].kind = "Err"
        /\ "cause" \in DOMAIN ret[t])
          => ret[t].cause # WouldBlock

Closing(f) == {t \in Threads : pc[t] \in {"fc_kill", "fc_emit"} /\ cid[t] = f}

\* the threads inside ssh_open_forward that have emitted "active" for f and
\* not yet inserted it
Opening(f) ==
    {t \in Threads : pc[t] \in {"fw_insert_L", "fw_insert_R"} /\ cid[t] = f}

\* C20: the status events of a forward identifier are one "active" at its
\* successful ssh_open_forward, followed by one "closed" at the
\* ssh_close_forward that removes it; no "closed" precedes the "active", and
\* concurrent ssh_close_forward calls on one identifier emit "closed" once.
C20_ForwardStatusEvents ==
    \A f \in ForwardIds :
       /\ fwdEvents[f] \in {<<>>, <<"active">>, <<"active", "closed">>}
       /\ Cardinality(Closing(f)) <= 1
       /\ f \in DOMAIN forwards => fwdEvents[f] = <<"active">>
       /\ (fwdEvents[f] = <<"active">> /\ f \notin DOMAIN forwards)
             => (Opening(f) # {} \/ Closing(f) # {})
       /\ (fwdEvents[f] = <<>>) => Closing(f) = {}
       /\ \A t \in Threads :
             (op[t] = "ssh_open_forward" /\ pc[t] = "done"
                /\ ret[t] = Ok(f)) => Len(fwdEvents[f]) >= 1

\* one ssh_close_forward is about to emit "closed" for a forward while a
\* second call on the same identifier waits for the registry
C20_Witness ==
    \E f \in ForwardIds, t1, t2 \in Threads :
       /\ pc[t1] = "fc_emit" /\ cid[t1] = f
       /\ pc[t2] = "fc_remove" /\ cid[t2] = f
       /\ fwdEvents[f] = <<"active">>

\* the threads inside ssh_open_forward that have started the process of
\* forward f and not yet inserted it
Starting(f) ==
    {t \in Threads : /\ pc[t] \in {"fw_emit_L", "fw_emit_R",
                                    "fw_insert_L", "fw_insert_R"}
                     /\ cid[t] = f}

\* C21 as stated: ssh_close_forward kills the process before it removes the
\* entry, so a forward that has left the registry never has a running process.
C21_Original ==
    \A f \in ForwardIds :
       (child[f] = "running" /\ f \notin DOMAIN forwards) => Starting(f) # {}

\* C21: ssh_close_forward removes the entry first and kills and reaps the
\* process next, both under the registry lock: a forward is out of the
\* registry with its process running only while the call that opens or closes
\* it holds the registry lock, and when ssh_close_forward returns the process
\* is terminated and the forward is absent.
C21_RemovedThenKilledUnderLock ==
    /\ [](\A f \in ForwardIds :
             (child[f] = "running" /\ f \notin DOMAIN forwards)
                => /\ regLock \in Threads
                   /\ regLock \in Starting(f) \cup Closing(f))
    /\ [][\A t \in Threads :
             (pc[t] = "fc_emit" /\ pc'[t] = "done")
                => /\ child'[cid[t]] # "running"
                   /\ cid[t] \notin DOMAIN forwards']_vars

\* ssh_close_forward has returned: the forward it closed is out of the
\* registry and its process has been killed
C21_Witness ==
    \E t \in Threads, f \in ForwardIds :
       /\ op[t] = "ssh_close_forward" /\ pc[t] = "done"
       /\ child[f] = "terminated"
       /\ f \notin DOMAIN forwards
       /\ fwdEvents[f] = <<"active", "closed">>

\* the errors of ssh_open_forward
OpenForwardErrors ==
    {Err("ssh session not found"), Err("unsupported forward type"),
     Err("Failed to start SSH process")}

\* C22: a failing ssh_open_forward (unknown session, a type other than "L"
\* and "R", or a spawn failure) returns one of its errors, adds no forward,
\* leaves no process behind and emits no "active" event.
C22_FailedOpenForwardLeavesNothing ==
    [][\A t \in Threads :
          (/\ op[t] = "ssh_open_forward"
           /\ pc[t] # "done" /\ pc'[t] = "done"
           /\ ret'[t].kind = "Err")
             => /\ ret'[t] \in OpenForwardErrors
                /\ forwards' = forwards
                /\ fwdEvents' = fwdEvents
                /\ child' = child
                /\ cid[t] \in ForwardIds
                      => /\ child[cid[t]] = "none"
                         /\ fwdEvents[cid[t]] = <<>>
                         /\ cid[t] \notin DOMAIN forwards
                /\ (sid[t] \notin DOMAIN ssh)
                      => ret'[t] = Err("ssh session not found")]_vars

\* ssh_open_forward has failed to spawn the ssh process: no forward, no
\* process and no event exist
C22_Witness ==
    \E t \in Threads :
       /\ op[t] = "ssh_open_forward" /\ pc[t] = "done"
       /\ ret[t] = Err("Failed to start SSH process")
       /\ forwards = <<>>
       /\ \A f \in ForwardIds : child[f] = "none" /\ fwdEvents[f] = <<>>

\* ------------------------------------------------------------------------
\* Claims about ssh_disconnect (checked under SpecShell)
\* ------------------------------------------------------------------------
\* the program points of ssh_sftp_download and ssh_sftp_download_dir at which
\* the call owns an Sftp handle and no lock
TransferPcs ==
    {"dl_open", "dl_create", "dl_read", "dl_relock", "dl_restore",
     "dd_mkroot", "dd_walk", "dd_relock", "dd_restore"}

\* the owners of a handle on the libssh2 session of s (ssh2::Session is a
\* reference-counted handle that every Channel and Sftp made from it shares):
\* its registry entry, the registered channels opened on it, and the calls
\* that hold the removed or newly made session in a local
Holders(s) ==
    {x \in {"registry"} : s \in DOMAIN ssh}
       \cup {c \in DOMAIN ssh_channels : ssh_channels[c].session_id = s}
       \cup {t \in Threads : pc[t] = "disc_bye" /\ sid[t] = s}
       \cup {t \in Threads : op[t] = "ssh_open_shell" /\ nsid[t] = s}
       \cup {t \in Threads : pc[t] \in TransferPcs /\ sid[t] = s}

\* the connection of s is up: somebody still owns a handle on the session and
\* the peer has not been told to disconnect
ConnectionUp(s) == Holders(s) # {} /\ ~bye[s]

\* C23: when ssh_disconnect(id) has returned, id is out of the registry and
\* its connection is terminated; a later ssh_open_shell naming id fails with
\* "ssh session not found" and changes no state; ssh_disconnect on an unknown
\* identifier succeeds without changing the registry.
C23_DisconnectTerminatesSession ==
    /\ [][\A t \in Threads :
             /\ (pc[t] = "disc_bye" /\ pc'[t] = "done")
                  => /\ ret'[t] = Ok("unit")
                     /\ sid[t] \notin DOMAIN ssh'
                     /\ ~ConnectionUp(sid[t])'
             /\ (pc[t] = "sh_lookup" /\ pc'[t] # pc[t]
                   /\ sid[t] \notin DOMAIN ssh)
                  => /\ ret'[t] = Err("ssh session not found")
                     /\ UNCHANGED <<regVars, chanState, fwdVars, bye>>
             /\ (pc[t] = "disc_remove" /\ pc'[t] # pc[t]
                   /\ sid[t] \notin DOMAIN ssh)
                  => /\ ret'[t] = Ok("unit")
                     /\ UNCHANGED <<regVars, chanState, fwdVars, bye>>]_vars

\* ------------------------------------------------------------------------
\* Claims about ssh_sftp_mkdirs (checked under SpecMkdirs)
\* ------------------------------------------------------------------------
\* every prefix of the path is a directory of the file system fs
AllPrefixesDirs(fs) ==
    \A i \in 1..Len(Curs(path)) : Stat(fs, Curs(path)[i]) = "dir"

\* the path is absolute and, when the running call started, no prefix of it
\* was something other than a directory
MkdirsPre ==
    /\ starts_with_slash(path)
    /\ \A i \in 1..Len(Curs(path)) : Stat(rfs0, Curs(path)[i]) # "file"

\* the call has returned r
MkdirsReturned(r) ==
    mkPc = "idle" /\ Len(mkRets) >= 1 /\ mkRets[Len(mkRets)].kind = r

\* C24: for an absolute path whose existing prefixes are directories, a
\* successful ssh_sftp_mkdirs leaves every prefix a directory, has created
\* only prefixes that were missing and has changed no existing file; a second
\* call succeeds and creates nothing; and the call does not fail because
\* another actor created a segment between the stat and the mkdir.
C24_MkdirsCreatesMissingPrefixes ==
    /\ (MkdirsPre /\ MkdirsReturned("Ok"))
          => /\ AllPrefixesDirs(rfs)
             /\ \A f \in made : Kind(rfs0, f) = "none" /\ Kind(rfs, f) = "dir"
             /\ \A f \in DOMAIN rfs0 : Kind(rfs, f) = rfs0[f]
             /\ \A f \in made :
                   \E i \in 1..Len(Curs(path)) :
                      f = Resolve(rfs, Curs(path)[i])
    /\ (starts_with_slash(path) /\ mkPc = "idle" /\ Len(mkRets) >= 2
          /\ mkRets[1].kind = "Ok")
          => /\ \A i \in 1..Len(mkRets) : mkRets[i] = Ok("unit")
             /\ made = {}
    /\ (MkdirsPre /\ MkdirsReturned("Err"))
          => mkRets[Len(mkRets)] = Err("PermissionDenied")

\* the call has created a directory of the path, another actor has created
\* the next one between the stat and the mkdir of the call, and the second
\* stat is about to find it
C24_Witness ==
    /\ MkdirsPre
    /\ mkPc = "restat"
    /\ mkErr = "Failure"
    /\ made # {}
    /\ Stat(rfs, cur) = "dir"
    /\ Len(Curs(path)) >= 2

\* ------------------------------------------------------------------------
\* Claims about upload progress (checked under SpecUpload)
\* ------------------------------------------------------------------------
\* ceil(n / c)
CeilDiv(n, c) == (n + c - 1) \div c

\* C25: at every moment of an upload of N bytes the "written" values of the
\* progress events are strictly increasing multiples of the chunk size
\* clamped to N and every event carries total = N; when the upload has
\* succeeded there are exactly ceil(N / 8192) events (none for N = 0) and the
\* last "written" is N.
C25_ProgressEvents ==
    /\ \A i \in 1..Len(progress) :
          /\ progress[i].total = total
          /\ progress[i].written <= total
          /\ progress[i].written > (IF i = 1 THEN 0 ELSE progress[i - 1].written)
          /\ progress[i].written - (IF i = 1 THEN 0 ELSE progress[i - 1].written)
                <= CHUNK
    /\ Len(progress) <= CeilDiv(total, CHUNK)
    /\ (upPc = "done" /\ upRet = Ok("unit"))
          => /\ Len(progress) = CeilDiv(total, CHUNK)
             /\ total = 0 => progress = <<>>
             /\ total > 0 => progress[Len(progress)].written = total

\* an upload of one byte more than a chunk has succeeded with two events
C25_Witness ==
    /\ upPc = "done" /\ upRet = Ok("unit")
    /\ total = CHUNK + 1
    /\ Len(progress) = 2
    /\ progress[2].written = total

\* ------------------------------------------------------------------------
\* Claims about ssh_sftp_list (checked under SpecList)
\* ------------------------------------------------------------------------
\* how often the entry e occurs in q
Count(q, e) == Cardinality({i \in 1..Len(q) : q[i] = e})

\* q has its directories first and, within the directories and within the
\* others, its names in case-insensitive order
DirsFirstByName(q) ==
    \A i, j \in 1..Len(q) :
       i < j => /\ q[j].is_dir => q[i].is_dir
                /\ q[i].is_dir = q[j].is_dir
                      => ~StrLess(to_ascii_lowercase(q[j].name),
                                  to_ascii_lowercase(q[i].name))

\* C26: the result of ssh_sftp_list holds exactly the entries of the remote
\* directory other than ".", each once, directories before the others and each
\* group in case-insensitive order of the names.
C26_ListIsFilteredAndSorted ==
    lsPc = "done"
       => /\ \A i \in 1..Len(lsDir) :
                Count(lsOut, lsDir[i])
                   = (IF lsDir[i].name = <<".">> THEN 0 ELSE 1)
          /\ \A i \in 1..Len(lsOut) : Count(lsDir, lsOut[i]) = 1
          /\ DirsFirstByName(lsOut)

Lossy ==
    { [ty |-> "f64", val |-> "NaN"],
      [ty |-> "Option<Option<u8>>", val |-> "Some(None)"] }

C28_VerifyAcceptsExactlyThePassword ==
    (setPw # "none" /\ verRet # NoRet) => verRet = Ok(verQ = setPw)

\* the program points of ssh_exec before it holds the session lock
ExecEntryPcs == {"exec_lookup", "exec_lock"}

\* C29: ssh_exec switches the session to blocking mode only after it holds
\* the session lock; channel open, exec, the reads of both streams and
\* wait_close run in blocking mode under that lock; and on every return path
\* (success, channel_session, exec, read and wait_close errors) the session
\* is non-blocking again when the session lock is released.
C29_ExecBlockingUnderLock ==
    [][\A t \in Threads :
          /\ (pc[t] \in ExecEntryPcs /\ pc'[t] # pc[t])
                => blocking' = blocking
          /\ (pc[t] = "exec_set_blocking")
                => sessLock[sid[t]] = t
          /\ (pc[t] \in ExecIOPcs)
                => blocking[sid[t]] /\ sessLock[sid[t]] = t
          /\ (pc[t] \in ExecIOPcs /\ pc'[t] \notin ExecIOPcs)
                => ~blocking'[sid[t]] /\ sessLock'[sid[t]] = NoThread
      ]_vars

\* C29, witness: one ssh_exec has returned the wait_close error and left its
\* session non-blocking and unlocked, and another is reading stdout in
\* blocking mode
C29_Witness ==
    \E t1, t2 \in Threads :
       /\ op[t1] = "ssh_exec"
       /\ pc[t1] = "done"
       /\ ret[t1] = Err("wait_close")
       /\ ~modeAfter[t1]
       /\ op[t2] = "ssh_exec"
       /\ pc[t2] = "exec_stdout"
       /\ blocking[sid[t2]]

IsOutput(e) == e.event = "SSH_OUTPUT"

\* the data of the SSH_OUTPUT events the reader of c emitted, in order
OutputData(c) ==
    LET o == SelectSeq(emitted[c], IsOutput)
    IN  [i \in 1..Len(o) |-> o[i].dataBytes]

\* the data the reader of c read and is no longer about to emit
ReadAndEmitted(c) ==
    IF rpc[c] = "r_output" THEN SubSeq(reads[c], 1, Len(reads[c]) - 1)
    ELSE reads[c]

\* the positions of the SSH_EXIT events of c
ExitPositions(c) ==
    {i \in 1..Len(emitted[c]) : emitted[c][i].event = "SSH_EXIT"}

\* C30, between reads: the output events of a channel carry the data of its
\* reads, each of 1 to 8192 bytes, one event a read and in the order of the
\* reads; at most one exit notification is emitted for a channel, nothing is
\* emitted after it, and the reader has stopped once it is emitted.
C30_EventsFollowReads ==
    \A c \in ChannelIds :
       /\ OutputData(c) = ReadAndEmitted(c)
       /\ \A i \in 1..Len(reads[c]) :
             reads[c][i].len >= 1 /\ reads[c][i].len <= BufSize
       /\ Cardinality(ExitPositions(c)) <= 1
       /\ \A i \in ExitPositions(c) : i = Len(emitted[c])
       /\ ExitPositions(c) # {} => rpc[c] = "r_end"

\* C30, at a read: a read that returns data is followed by the output event
\* with that data; end of stream and an error other than WouldBlock emit the
\* exit notification and stop the reader; WouldBlock emits nothing and the
\* reader goes round its loop again; nothing else emits an event.
C30_ReadDecidesEvent ==
    \A c \in ChannelIds :
       /\ (rpc[c] = "r_read" /\ rpc'[c] # "r_read") =>
             CASE rres'[c] \in {"eof", "error"} ->
                     /\ emitted'[c] = Append(emitted[c], ExitEvent(c))
                     /\ rpc'[c] = "r_end"
               [] rres'[c] = "would_block" ->
                     /\ emitted'[c] = emitted[c]
                     /\ rpc'[c] = "r_top"
               [] rres'[c] = "data" ->
                     /\ emitted'[c] = emitted[c]
                     /\ rpc'[c] = "r_output"
                     /\ rbuf'[c] = reads'[c][Len(reads'[c])]
                     /\ Len(reads'[c]) = Len(reads[c]) + 1
               [] OTHER -> FALSE
       /\ (rpc[c] = "r_output" /\ rpc'[c] # "r_output") =>
             /\ emitted'[c] = Append(emitted[c], OutputEvent(c, rbuf[c]))
             /\ rpc'[c] = "r_top"
       /\ (rpc[c] \notin {"r_read", "r_output"}) =>
             emitted'[c] = emitted[c]

\* C30: for each channel the reader emits an output event for every read
\* that returns data (1 to 8192 bytes, in read order), emits the exit
\* notification and stops on end of stream or an error other than
\* WouldBlock, and on WouldBlock emits nothing and retries; so at most one
\* exit notification is emitted for a channel and no output event follows it.
C30_ReaderEvents ==
    /\ []C30_EventsFollowReads
    /\ [][C30_ReadDecidesEvent]_vars

\* C30, witness: the reader emitted two output events, a full buffer and
\* then a single byte, and after them the exit notification for a read
\* error
C30_Witness ==
    \E c \in ChannelIds :
       /\ Len(emitted[c]) = 3
       /\ emitted[c][1] = OutputEvent(c, [seq |-> 1, len |-> BufSize])
       /\ emitted[c][2] = OutputEvent(c, [seq |-> 2, len |-> 1])
       /\ emitted[c][3] = ExitEvent(c)
       /\ rres[c] = "error"
       /\ rpc[c] = "r_end"

\* the hosts and keys of the lines of the known-hosts store
Stored == {<<known_hosts[i].host, known_hosts[i].key>> :
              i \in 1..Len(known_hosts)}

\* host h is among the pairs of set and key k is not one of its keys
OtherKey(set, h, k) == <<h, k>> \notin set /\ \E p \in set : p[1] = h

C32_ActiveUntilClosed ==
    /\ [][\A f \in ForwardIds :
             /\ (f \in DOMAIN forwards /\ f \notin DOMAIN forwards')
                   => \E t \in Threads :
                         /\ op[t] = "ssh_close_forward" /\ cid[t] = f
                         /\ pc[t] = "fc_remove" /\ pc'[t] = "fc_kill"
             /\ (fwdEvents'[f] = Append(fwdEvents[f], "closed"))
                   => \E t \in Threads :
                         /\ op[t] = "ssh_close_forward" /\ cid[t] = f
                         /\ pc[t] = "fc_emit" /\ pc'[t] = "done"
             /\ (child[f] = "running" /\ child'[f] = "exited")
                   => /\ forwards' = forwards
                      /\ fwdEvents' = fwdEvents
       ]_vars
    /\ [](\A f \in ForwardIds :
             (child[f] = "exited" /\ Starting(f) = {} /\ Closing(f) = {})
                => /\ f \in DOMAIN forwards
                   /\ fwdEvents[f] = <<"active">>)

\* C32, witness: the process of a registered forward has exited while no
\* command is running; the forward is still registered and "active" is the
\* only event emitted for it
C32_Witness ==
    \E f \in DOMAIN forwards :
       /\ child[f] = "exited"
       /\ fwdEvents[f] = <<"active">>
       /\ \A t \in Threads : pc[t] \in {"idle", "done"}

\* ------------------------------------------------------------------------
\* SpecLocks: the commands that take locks, side by side with the reader
\* ------------------------------------------------------------------------
\* the session commands of this specification: one that keeps both guards to
\* its end and one that drops them and takes the registry lock again
LockedOps == {"ssh_exec", "ssh_sftp_download"}

\* a caller thread invokes one of them on session id s
LockedCall(t) ==
    /\ pc[t] = "idle"
    /\ \E o \in LockedOps, s \in SessionIds :
          /\ op' = [op EXCEPT ![t] = o]
          /\ sid' = [sid EXCEPT ![t] = s]
          /\ pc' = [pc EXCEPT ![t] = Entry(o)]
          /\ modeBefore' = [modeBefore EXCEPT ![t] = blocking[s]]
          /\ modeAfter' = [modeAfter EXCEPT ![t] = blocking[s]]
    /\ ret' = [ret EXCEPT ![t] = NoRet]
    /\ UNCHANGED <<sessVars, known_hosts, cnt, connVars, shellVars>>

LockedStep(t) ==
    \/ ssh_exec_lookup(t)
    \/ ssh_exec_lock(t)
    \/ ssh_exec_set_blocking(t)
    \/ ssh_exec_channel(t)
    \/ ssh_exec_exec(t)
    \/ ssh_exec_stdout(t)
    \/ ssh_exec_stderr(t)
    \/ ssh_exec_wait_close(t)
    \/ ssh_sftp_download_lookup(t)
    \/ ssh_sftp_download_lock(t)
    \/ ssh_sftp_download_set_blocking(t)
    \/ ssh_sftp_download_sftp(t)
    \/ ssh_sftp_download_open(t)
    \/ ssh_sftp_download_create(t)
    \/ ssh_sftp_download_read(t)
    \/ ssh_sftp_download_relock(t)
    \/ ssh_sftp_download_restore(t)

OpenShellStep(t) ==
    \/ ssh_open_shell_lookup(t)
    \/ ssh_open_shell_establish(t)
    \/ ssh_open_shell_insert(t)
    \/ ssh_open_shell_channel(t)
    \/ ssh_open_shell_pty(t)
    \/ ssh_open_shell_start(t)
    \/ ssh_open_shell_register(t)
    \/ ssh_open_shell_spawn(t)

\* the thread that calls ssh_exec and ssh_sftp_download, and the thread that
\* calls ssh_open_shell and ssh_disconnect; both call ssh_write, ssh_resize
\* and ssh_close_shell
LockCallers == {"t1"}
RegistryCallers == {"t2"}

\* ssh_open_shell or ssh_disconnect is invoked on a session id
RegistryCall(t) ==
    \E o \in {"ssh_open_shell", "ssh_disconnect"}, s \in SessionIds :
       Invoke(t, o, s, NoChannel)

NextLocks ==
    \/ \E t \in LockCallers :
          \/ LockedCall(t)
          \/ CloseCall(t)
          \/ Done(t)
          \/ LockedStep(t)
          \/ ChannelStep(t)
    \/ \E t \in RegistryCallers :
          \/ RegistryCall(t)
          \/ CloseCall(t)
          \/ Done(t)
          \/ OpenShellStep(t)
          \/ ChannelStep(t)
          \/ ssh_disconnect_remove(t)
          \/ ssh_disconnect_bye(t)
    \/ \E c \in ChannelIds : ReaderStep(c)

SpecLocks == InitShell /\ [][NextLocks]_vars

\* ------------------------------------------------------------------------
\* Claims about the locks (checked under SpecLocks)
\* ------------------------------------------------------------------------
\* the program points at which a command calls state.inner.lock()
RegistryPcs ==
    {"exec_lookup", "dl_lookup", "dl_relock", "disc_remove", "sh_lookup",
     "sh_insert", "sh_register", "wr_lookup", "rs_lookup", "rs_session",
     "cl_lookup", "cl_session", "cl_remove"}
\* the program points at which a command calls lock() on a session lock
SessionLockPcs ==
    {"exec_lock", "dl_lock", "wr_lock_sess", "rs_lock_sess", "cl_lock_sess"}
\* the program points at which a command calls lock() on a channel
ChannelLockPcs == {"wr_lock_chan", "rs_lock_chan", "cl_lock_chan"}

\* the threads of the program: the callers and the reader of each channel
Agents == Threads \cup ChannelIds

\* the class of lock agent x is about to request
Wants(x) ==
    IF x \in Threads
    THEN CASE pc[x] \in RegistryPcs -> "registry"
           [] pc[x] \in SessionLockPcs -> "session"
           [] pc[x] \in ChannelLockPcs -> "channel"
           [] OTHER -> "none"
    ELSE CASE rpc[x] \in {"r_top", "r_session"} -> "registry"
           [] rpc[x] = "r_lock_sess" -> "session"
           [] rpc[x] = "r_lock_chan" -> "channel"
           [] OTHER -> "none"

\* the session lock or channel lock agent x is about to request
WantedSession(x) ==
    IF x \in Threads
    THEN (IF pc[x] \in {"exec_lock", "dl_lock"} THEN sid[x] ELSE nsid[x])
    ELSE rsid[x]
WantedChannel(x) == IF x \in Threads THEN cid[x] ELSE x

\* the classes of the locks agent x holds
Held(x) ==
    {k \in {"registry"} : regLock = x}
       \cup {k \in {"session"} : \E s \in SessionIds : sessLock[s] = x}
       \cup {k \in {"channel"} : \E c \in ChannelIds : chanLock[c] = x}

\* the classes that may be held when a lock of class k is requested
Before(k) ==
    CASE k = "registry" -> {}
      [] k = "session" -> {"registry"}
      [] k = "channel" -> {"registry", "session"}
      [] OTHER -> {"registry", "session", "channel"}

\* the agents whose lock agent x waits for
WaitsFor(x) ==
    CASE Wants(x) = "registry" -> {regLock} \cap Agents
      [] Wants(x) = "session" -> {sessLock[WantedSession(x)]} \cap Agents
      [] Wants(x) = "channel" -> {chanLock[WantedChannel(x)]} \cap Agents
      [] OTHER -> {}

\* the agents x waits for, directly or through others
WaitsForChain(x) ==
    LET one == WaitsFor(x)
        two == one \cup UNION {WaitsFor(y) : y \in one}
    IN  two \cup UNION {WaitsFor(y) : y \in two}

\* agent x is inside a command or a reader loop
Running(x) ==
    IF x \in Threads THEN pc[x] \notin {"idle", "done"}
    ELSE rpc[x] \notin {"none", "r_end"}

NextIdle ==
    \/ \E t \in Threads :
          \/ LockedCall(t)
          \/ Done(t)
          \/ LockedStep(t)
    \/ \E c \in ChannelIds : ReaderStep(c)

FairIdle ==
    /\ \A t \in Threads : SF_vars(LockedStep(t))
    /\ \A c \in ChannelIds : SF_vars(ReaderStep(c) /\ ~ReadWaits(c))

SpecIdle == InitClose /\ [][NextIdle]_vars /\ FairIdle

\* C34: under fair scheduling, with a remote end that answers every request
\* and a shell that sends nothing, every ssh_exec and ssh_sftp_download that
\* has been invoked obtains the session lock and returns.
C34_CallsReturn ==
    \A t \in Threads :
       (op[t] \in LockedOps /\ pc[t] \notin {"idle", "done"})
          ~> (pc[t] = "done")

\* ------------------------------------------------------------------------
\* Claims about the registries (checked under SpecShell)
\* ------------------------------------------------------------------------
\* C35: every channel and every forward of the registry names a session
\* that is in the session registry.
C35_OwnersRegistered ==
    /\ \A c \in DOMAIN ssh_channels :
          ssh_channels[c].session_id \in DOMAIN ssh
    /\ \A f \in DOMAIN forwards : forwards[f].session_id \in DOMAIN ssh

\* C36: when ssh_open_shell returns an error, the session it created for the
\* split, if any, is not registered, and the channel registry is as it was:
\* the call leaves the registries as they were when it started.
C36_FailedOpenShellLeavesNothing ==
    [][\A t \in Threads :
          (/\ op[t] = "ssh_open_shell"
           /\ pc[t] # "done" /\ pc'[t] = "done"
           /\ ret'[t].kind = "Err")
             => /\ nsid[t] \notin DOMAIN ssh'
                /\ ssh_channels' = ssh_channels]_vars

\* C37: ssh_set_primary with an id that is not registered returns an error
\* and leaves the primary flag of every session as it was; with a registered
\* id it returns Ok, and ssh_get_primary then returns that id and no other.
C37_SetPrimary ==
    [][\A t \in Threads :
          (pc[t] = "sp_set" /\ pc'[t] = "done")
             => IF sid[t] \notin DOMAIN ssh
                THEN /\ ret'[t].kind = "Err"
                     /\ \A s \in DOMAIN ssh :
                           ssh'[s].is_primary = ssh[s].is_primary
                ELSE /\ ret'[t] = Ok("unit")
                     /\ ssh_get_primary(ssh') =
                           {Ok([kind |-> "Some", val |-> sid[t]])}]_vars

\* C38: a successful ssh_close_shell of the channel that ssh_open_shell
\* returned, with no other command running, restores the registries: the
\* channel is no longer registered and neither is the split session that was
\* created for the shell.
C38_CloseUndoesOpen ==
    [][\A t \in Threads :
          (/\ op[t] = "ssh_close_shell"
           /\ pc[t] = "cl_remove" /\ pc'[t] = "done"
           /\ ret'[t].kind = "Ok"
           /\ rpc[cid[t]] # "none"
           /\ \A u \in Threads \ {t} : pc[u] \in {"idle", "done"})
             => /\ cid[t] \notin DOMAIN ssh_channels'
                /\ nsid[t] \notin DOMAIN ssh']_vars

====
